---- MODULE Spec2Model ----
(***************************************************************************)
(* A model of yakui's layout core: the Dom's per-frame reconciliation, the *)
(* LayoutDom size pass (LayoutDom::calculate, driven by the widgets'       *)
(* layout functions), the clip stacks, and the position/clip pass          *)
(* (LayoutDom::resolve_positions).                                         *)
(*                                                                         *)
(* Coordinates are integers (the code uses f32); a vector is <<x, y>>, a   *)
(* rectangle is [pos, size].  A handle (WidgetId / thunderdome::Index) is  *)
(* <<slot, generation>>.                                                   *)
(***************************************************************************)
EXTENDS Integers, Sequences, FiniteSets, TLC

VARIABLES
    dom,                 \* Dom: arena of widget nodes (slot -> entry)
    removed,             \* Dom::removed_nodes of the last reconciliation
    nodes,               \* LayoutDom.nodes: Arena<LayoutDomNode>
    clip_stack,          \* LayoutDom.clip_stack: Arena<Vec<WidgetId>>
    current_clip_stack,  \* LayoutDom.current_clip_stack: Vec<WidgetId>
    interests,           \* LayoutDom.interests (the mouse interest layers)
    unscaled_viewport,   \* LayoutDom.unscaled_viewport
    scale_factor,        \* LayoutDom.scale_factor
    stack,               \* the active calculate() calls, innermost last
    phase,               \* where the frame loop stands
    frame,               \* frames declared so far
    prev,                \* the Dom and LayoutDom.nodes as the previous frame left them
    catalogue,           \* the widget catalogue the application draws from
    calls,               \* the handles calculate() was entered for in this pass
    clashed,             \* push_new_clip_stack found its slot taken (debug_assert)
    paint,               \* PaintDom: texture table, texture edits, layers of paint calls
    renderer,            \* YakuiWgpu: managed_textures, commands
    render_pass,         \* what paint_with recorded into the wgpu::RenderPass
    texture_log,         \* per paint_with, the texture edits update_textures consumed
    texture_calls,       \* the add_texture and update_texture calls made so far
    multisampling,       \* yakui-app Multisampling
    surface,             \* the device's textures and the last SurfaceInfo returned
    textbox,             \* a TextBoxWidget
    selection,           \* InputState's selection is this text box
    text_pending,        \* what happened to the text box since its last update()
    text_call,           \* the last call made on the text box, and what it returned
    text_layout,         \* the LayoutDom has an entry for the text box
    clipping             \* the last clip resolution asked for, and its result

layoutVars == <<dom, removed, nodes, clip_stack, current_clip_stack, interests,
                unscaled_viewport, scale_factor, stack, phase, frame, prev,
                calls, clashed>>
paintVars == <<paint, renderer, render_pass, texture_log, texture_calls>>
surfaceVars == <<multisampling, surface>>
textVars == <<textbox, selection, text_pending, text_call, text_layout>>
clipVars == <<clipping>>
vars == <<layoutVars, paintVars, surfaceVars, textVars, clipVars, catalogue>>

-----------------------------------------------------------------------------
(* Bounds *)

\* Call sites of the application (widget declarations besides the root).
MaxSites == 3
\* Slots of every arena; slot 0 holds the root.
MaxSlots == 4
\* Frames declared in the reconciliation catalogue.
MaxFrames == 3
\* Managed textures of the application.
MaxTextures == 2
\* Paint calls of a frame.
MaxCalls == 2
\* Bits of the renderer's unsigned integers (u32 in the code).
U32Bits == 4
\* Characters in the text of a text box.
MaxText == 2

Sites == 1..MaxSites
Slots == 0..(MaxSlots - 1)

-----------------------------------------------------------------------------
(* Geometry: glam::Vec2 and yakui_core::geometry::Rect *)

VZero == <<0, 0>>
VAdd(a, b) == <<a[1] + b[1], a[2] + b[2]>>
VSub(a, b) == <<a[1] - b[1], a[2] - b[2]>>
VNeg(a) == <<0 - a[1], 0 - a[2]>>
VMul(a, b) == <<a[1] * b[1], a[2] * b[2]>>
VDiv(a, k) == <<a[1] \div k, a[2] \div k>>
Max2(x, y) == IF x >= y THEN x ELSE y
Min2(x, y) == IF x <= y THEN x ELSE y
VMax(a, b) == <<Max2(a[1], b[1]), Max2(a[2], b[2])>>
VMin(a, b) == <<Min2(a[1], b[1]), Min2(a[2], b[2])>>

RectFromPosSize(p, s) == [pos |-> p, size |-> s]
RectZero == RectFromPosSize(VZero, VZero)
RectMax(r) == VAdd(r.pos, r.size)
RectSetPos(r, p) == [r EXCEPT !.pos = p]

\* The overlap of two rectangles, with no negative extent.
Intersection(a, b) ==
    LET lo == VMax(a.pos, b.pos)
        hi == VMin(RectMax(a), RectMax(b))
    IN  RectFromPosSize(lo, VMax(VSub(hi, lo), VZero))

ZeroArea(r) == r.size[1] <= 0 \/ r.size[2] <= 0

\* r lies within outer (as sets of points; an empty r lies within anything).
Within(r, outer) ==
    \/ ZeroArea(r)
    \/ /\ outer.pos[1] <= r.pos[1] /\ outer.pos[2] <= r.pos[2]
       /\ RectMax(r)[1] <= RectMax(outer)[1]
       /\ RectMax(r)[2] <= RectMax(outer)[2]

\* Rect::constrain(self, other): the intersection; a degenerate (zero-area)
\* intersection falls back to self, which resolve_positions passes as the
\* clip-parent's clip.
RectConstrain(self, other) ==
    LET i == Intersection(self, other)
    IN  IF ZeroArea(i) THEN self ELSE i

-----------------------------------------------------------------------------
(* Identity arena: thunderdome::Arena, keyed by <<slot, generation>> *)

NoId == <<0, 0>>
Slot(h) == h[1]
Gen(h) == h[2]

ArenaEmptyEntry(g) == [occ |-> FALSE, gen |-> g, val |-> <<>>]
ArenaNew == [s \in Slots |-> ArenaEmptyEntry(0)]

ArenaContains(a, h) == a[Slot(h)].occ /\ a[Slot(h)].gen = Gen(h)
ArenaGet(a, h) == a[Slot(h)].val
ArenaIds(a) == {<<s, a[s].gen>> : s \in {t \in Slots : a[t].occ}}

\* insert_at: the slot takes the handle's generation, whatever was there.
ArenaInsertAt(a, h, v) ==
    [a EXCEPT ![Slot(h)] = [occ |-> TRUE, gen |-> Gen(h), val |-> v]]

\* remove: only an entry of the same generation is removed.
ArenaRemove(a, h) ==
    IF ArenaContains(a, h)
    THEN [a EXCEPT ![Slot(h)] = ArenaEmptyEntry(Gen(h))]
    ELSE a

ArenaSet(a, h, v) == [a EXCEPT ![Slot(h)].val = v]

ArenaFreeSlots(a) == {s \in Slots : ~a[s].occ}

\* insert: a free slot, with the generation after the one it last held.
ArenaNextId(a) ==
    LET s == CHOOSE t \in ArenaFreeSlots(a) : \A u \in ArenaFreeSlots(a) : t <= u
    IN  <<s, a[s].gen + 1>>

-----------------------------------------------------------------------------
(* Widgets.  A widget is the record of what its Widget implementation does *)
(* when the LayoutDom calls it: layout(), flow(), event_interest().        *)

TOP_LEFT == <<0, 0>>
TOP_RIGHT == <<1, 0>>
BOTTOM_LEFT == <<0, 1>>
BOTTOM_RIGHT == <<1, 1>>

\* Dim2: pixels plus a share (0 or 1) of the length it is resolved against.
Dim2(px, pct) == [px |-> px, pct |-> pct]
Dim2Zero == Dim2(VZero, VZero)
Dim2Resolve(d, len) == VAdd(d.px, VMul(d.pct, len))

FlowNormal == [abs |-> FALSE, anchor |-> TOP_LEFT, offset |-> Dim2Zero]
FlowAbsolute(anchor, offset) == [abs |-> TRUE, anchor |-> anchor, offset |-> offset]

\* A widget that returns `size`, lays out its children (when `recurse`),
\* puts each at `childPos`, and calls enable_clipping / new_clip_stack /
\* new_layer before ("pre") or after ("post") laying out its children.
Box(size, childPos, clip, clipAt, flow) ==
    [type |-> "box", size |-> size, childPos |-> childPos, clip |-> clip,
     clipAt |-> clipAt, layer |-> FALSE, interest |-> "none", flow |-> flow,
     pivot |-> TOP_LEFT, recurse |-> TRUE]

\* widgets::Absolute { anchor, pivot, offset }
Absolute(anchor, pivot, offset) ==
    [type |-> "absolute", size |-> VZero, childPos |-> VZero, clip |-> "none",
     clipAt |-> "pre", layer |-> FALSE, interest |-> "none",
     flow |-> FlowAbsolute(anchor, offset), pivot |-> pivot, recurse |-> TRUE]

\* dom::RootWidget
RootWidget ==
    [type |-> "root", size |-> VZero, childPos |-> VZero, clip |-> "none",
     clipAt |-> "pre", layer |-> FALSE, interest |-> "none",
     flow |-> FlowNormal, pivot |-> TOP_LEFT, recurse |-> TRUE]

Plain == Box(<<1, 1>>, VZero, "none", "pre", FlowNormal)

\* A widget that sizes itself to the largest size its constraints allow,
\* and lays out its children with the constraints it received.
Fill ==
    [type |-> "fill", size |-> VZero, childPos |-> VZero, clip |-> "none",
     clipAt |-> "pre", layer |-> FALSE, interest |-> "none",
     flow |-> FlowNormal, pivot |-> TOP_LEFT, recurse |-> TRUE]

\* Clipping widgets: children placed partly inside (at <<1, 1>>) or fully
\* outside (at <<3, 0>>) their 2x2 parent.
ClipKinds ==
    {Box(<<2, 2>>, p, c, "pre", FlowNormal) : p \in {<<1, 1>>, <<3, 0>>}, c \in {"none", "enable"}}
    \cup {Box(<<2, 2>>, <<1, 1>>, "new_stack", "pre", FlowNormal),
          Box(<<2, 2>>, <<1, 1>>, "enable", "post", FlowNormal)}

\* Positioning widgets: normal flow, Flow::Absolute, and widgets::Absolute.
FlowKinds ==
    {Box(<<1, 2>>, <<2, 1>>, "none", "pre", FlowNormal),
     Box(<<2, 1>>, <<1, 1>>, "none", "pre", FlowAbsolute(BOTTOM_RIGHT, Dim2Zero)),
     Box(<<1, 1>>, <<0, 1>>, "none", "pre", FlowAbsolute(TOP_RIGHT, Dim2(<<1, 1>>, <<0, 1>>))),
     Absolute(BOTTOM_RIGHT, BOTTOM_RIGHT, Dim2Zero),
     Absolute(BOTTOM_LEFT, TOP_RIGHT, Dim2(<<1, 0>>, VZero))}

\* The widget w, with a layout() that does not lay out its children.
Skipping(w) == [w EXCEPT !.recurse = FALSE]

\* Widgets that place their children at <<1, 1>>, laying them out or not.
PassKinds ==
    {Box(<<2, 2>>, <<1, 1>>, "none", "pre", FlowNormal),
     Skipping(Box(<<2, 2>>, <<1, 1>>, "none", "pre", FlowNormal))}

\* The widget w, with a layout() that calls new_layer() first.
Layered(w) == [w EXCEPT !.layer = TRUE]
\* The widget w, with event_interest() returning `interest`.
Interested(w, interest) == [w EXCEPT !.interest = interest]

\* Overlapping widgets, in a layer of their own or not, interested in
\* mouse events or not.
LayerKinds ==
    {Box(<<2, 2>>, <<1, 1>>, "none", "pre", FlowNormal),
     Interested(Box(<<2, 2>>, <<1, 1>>, "none", "pre", FlowNormal), "mouse"),
     Layered(Box(<<2, 2>>, <<1, 1>>, "none", "pre", FlowNormal)),
     Layered(Interested(Box(<<2, 2>>, <<1, 1>>, "none", "pre", FlowNormal), "mouse"))}

\* Widgets interested in mouse events, in keys they capture, or in the
\* keyboard while focused only; the second does not lay out its children.
InterestKinds ==
    {Interested(Box(<<2, 2>>, <<1, 1>>, "none", "pre", FlowNormal), "mouse"),
     Skipping(Interested(Box(<<2, 2>>, <<1, 1>>, "none", "pre", FlowNormal), "keys")),
     Interested(Box(<<2, 2>>, <<1, 1>>, "none", "pre", FlowNormal), "focus")}

\* Sizing widgets: one that fills its constraints, one of a fixed size.
FillKinds == {Fill, Box(<<1, 2>>, <<2, 1>>, "none", "pre", FlowNormal)}

Kinds(c) ==
    CASE c = "reconcile" -> {Plain}
      [] c = "clip" -> ClipKinds
      [] c = "flow" -> FlowKinds
      [] c = "fill" -> FillKinds
      [] c = "pass" -> PassKinds
      [] c = "layer" -> LayerKinds
      [] c = "interest" -> InterestKinds

FramesOf(c) ==
    IF c \in {"reconcile", "pass", "textures"} THEN MaxFrames
    ELSE IF c \in {"interest", "early"} THEN 2 ELSE 1

Viewports == {RectFromPosSize(VZero, <<4, 6>>)}
\* The window of the sizing catalogue.
WindowViewports == {RectFromPosSize(VZero, <<800, 600>>)}
ViewportsOf(c) == IF c = "fill" THEN WindowViewports ELSE Viewports
ScaleFactors == {1, 2}

-----------------------------------------------------------------------------
(* Dom: the widget tree and its per-frame reconciliation *)

Root == <<0, 1>>

DomNode(site, parent, children, widget) ==
    [site |-> site, parent |-> parent, children |-> children, widget |-> widget]

DomNew == ArenaInsertAt(ArenaNew, Root, DomNode(0, NoId, <<>>, RootWidget))

DomLive(d) == ArenaIds(d)

\* What the application declares in one frame: for each call site, whether
\* it is reached, under which call site (0: the root), with which props.
DeclOff == [on |-> FALSE, parent |-> 0, widget |-> Plain]
\* In the "pass" catalogue every frame declares the same chain of call
\* sites, each under the one before, and only the widgets' props vary.
DeclChoices(c, s) ==
    IF c \in {"pass", "interest"}
    THEN {[on |-> TRUE, parent |-> s - 1, widget |-> w] : w \in Kinds(c)}
    ELSE {DeclOff} \cup
         {[on |-> TRUE, parent |-> p, widget |-> w] : p \in 0..(s - 1), w \in Kinds(c)}
Decls(c) ==
    {d \in [Sites -> UNION {DeclChoices(c, s) : s \in Sites}] :
        \A s \in Sites : /\ d[s] \in DeclChoices(c, s)
                         /\ (d[s].on /\ d[s].parent # 0) => d[d[s].parent].on}

\* The live node that call site s under parent handle p resolved to in the
\* last frame, if any.
DomFind(d, s, p) ==
    {h \in DomLive(d) : ArenaGet(d, h).site = s /\ ArenaGet(d, h).parent = p}

SetToSeq(S) ==
    LET RECURSIVE Build(_)
        Build(T) == IF T = {} THEN <<>>
                    ELSE LET x == CHOOSE y \in T : \A z \in T : y[1] <= z[1]
                         IN  <<x>> \o Build(T \ {x})
    IN  Build(S)

\* Declare call sites s..MaxSites in order.  `ids` maps the call sites
\* declared so far to their handles (ids[0] is the root).
RECURSIVE DomDeclare(_, _, _, _)
DomDeclare(d, decl, s, ids) ==
    IF s > MaxSites THEN [dom |-> d, ids |-> ids]
    ELSE IF ~decl[s].on THEN DomDeclare(d, decl, s + 1, ids)
    ELSE LET p == ids[decl[s].parent]
             found == DomFind(d, s, p)
             h == IF found # {} THEN CHOOSE x \in found : TRUE ELSE ArenaNextId(d)
             d1 == ArenaInsertAt(d, h, DomNode(s, p, <<>>, decl[s].widget))
             pn == ArenaGet(d1, p)
             d2 == ArenaSet(d1, p, [pn EXCEPT !.children = Append(@, h)])
         IN  DomDeclare(d2, decl, s + 1, [ids EXCEPT ![s] = h])

\* One frame: the root's child list is rebuilt, every declaration resolves
\* to its handle, then the nodes not declared in this frame are swept.
DomFrame(d, decl) ==
    LET d0 == ArenaSet(d, Root, [ArenaGet(d, Root) EXCEPT !.children = <<>>])
        r == DomDeclare(d0, decl, 1, [s \in 0..MaxSites |-> IF s = 0 THEN Root ELSE NoId])
        kept == {r.ids[s] : s \in 0..MaxSites} \ {NoId}
        stale == DomLive(r.dom) \ kept
        RECURSIVE Sweep(_, _)
        Sweep(a, S) == IF S = {} THEN a
                       ELSE LET x == CHOOSE y \in S : TRUE
                            IN  Sweep(ArenaRemove(a, x), S \ {x})
    IN  [dom |-> Sweep(r.dom, stale), removed |-> SetToSeq(stale), ids |-> r.ids]

\* The declaration fits the arena: a free slot for every new node.
DomFits(d, decl) ==
    LET RECURSIVE Count(_, _, _)
        Count(a, s, ids) ==
            IF s > MaxSites THEN 0
            ELSE IF ~decl[s].on THEN Count(a, s + 1, ids)
            ELSE LET p == ids[decl[s].parent]
                     found == IF p = NoId THEN {} ELSE DomFind(a, s, p)
                 IN  IF found # {}
                     THEN Count(a, s + 1, [ids EXCEPT ![s] = CHOOSE x \in found : TRUE])
                     ELSE 1 + Count(a, s + 1, ids)
    IN  Count(d, 1, [s \in 0..MaxSites |-> IF s = 0 THEN Root ELSE NoId])
            <= Cardinality(ArenaFreeSlots(d))

DomParent(d, h) == ArenaGet(d, h).parent
DomChildren(d, h) == ArenaGet(d, h).children
DomWidget(d, h) == ArenaGet(d, h).widget

RECURSIVE DomAncestors(_, _)
DomAncestors(d, h) ==
    IF h = Root \/ ~ArenaContains(d, h) THEN {}
    ELSE {DomParent(d, h)} \cup DomAncestors(d, DomParent(d, h))

-----------------------------------------------------------------------------
(* Constraints *)

ConstraintsTight(v) == [min |-> v, max |-> v, finite |-> TRUE]
ConstraintsNone == [min |-> VZero, max |-> VZero, finite |-> FALSE]
ConstrainMin(c, base) == VMax(base, c.min)

-----------------------------------------------------------------------------
(* Interests: the stack of mouse interest layers *)

InterestLayer(root) == [root |-> root, members |-> <<>>]
InterestsNew == [layers |-> <<InterestLayer(NoId)>>, open |-> <<1>>]
InterestsClear(i) == InterestsNew
CurrentLayerRoot(i) == i.layers[i.open[Len(i.open)]].root
PushLayer(i, id) ==
    [layers |-> Append(i.layers, InterestLayer(id)),
     open |-> Append(i.open, Len(i.layers) + 1)]
PopLayer(i) == [i EXCEPT !.open = SubSeq(@, 1, Len(@) - 1)]
InterestsInsert(i, id, interest) ==
    [i EXCEPT !.layers[i.open[Len(i.open)]].members = Append(@, id)]

\* EventInterest: intersects(MOUSE_ALL) || intersects(CAPTURE_KEYS)
WantsRegistration_Any(interest) == interest # "none"
WantsRegistration(interest) == interest \in {"mouse", "keys"}

\* The point lies in the rectangle.
RectContains(r, p) ==
    /\ r.pos[1] <= p[1] /\ p[1] < r.pos[1] + r.size[1]
    /\ r.pos[2] <= p[2] /\ p[2] < r.pos[2] + r.size[2]

\* The members of layer k whose laid-out rectangle and clip hold the point.
HitCandidates(i, ns, k, point) ==
    {h \in {i.layers[k].members[m] : m \in 1..Len(i.layers[k].members)} :
        /\ ArenaContains(ns, h)
        /\ RectContains(ArenaGet(ns, h).rect, point)
        /\ RectContains(ArenaGet(ns, h).clip, point)}

\* Hit test: the layers from the one opened last down to the base layer;
\* in the first that holds a candidate, the candidate declared last.
HitTest(i, ns, d, point) ==
    LET hit == {k \in 1..Len(i.layers) : HitCandidates(i, ns, k, point) # {}}
    IN  IF hit = {} THEN NoId
        ELSE LET top == CHOOSE k \in hit : \A m \in hit : m <= k
                 c == HitCandidates(i, ns, top, point)
             IN  CHOOSE h \in c : \A g \in c : ArenaGet(d, g).site <= ArenaGet(d, h).site

-----------------------------------------------------------------------------
(* LayoutDom.  L is the record of the LayoutDom's fields. *)

Last(q) == q[Len(q)]
Front(q) == SubSeq(q, 1, Len(q) - 1)

LayoutDomNode_ZeroClip(rect, new_layer, clip, clipped_by, event_interest) ==
    [rect |-> rect, new_layer |-> new_layer, clip |-> RectZero,
     clipped_by |-> clipped_by, event_interest |-> event_interest]
LayoutDomNode(rect, new_layer, clip, clipped_by, event_interest) ==
    [rect |-> rect, new_layer |-> new_layer, clip |-> clip,
     clipped_by |-> clipped_by, event_interest |-> event_interest]

LayoutState ==
    [nodes |-> nodes, clip_stack |-> clip_stack,
     current_clip_stack |-> current_clip_stack, interests |-> interests,
     clashed |-> clashed]

\* Mutant: the lookup goes by slot alone.
Get_BySlot(ns, id) == IF ns[Slot(id)].occ THEN ArenaGet(ns, id) ELSE <<>>

\* LayoutDom::get
Get(ns, id) == IF ArenaContains(ns, id) THEN ArenaGet(ns, id) ELSE <<>>
Has(ns, id) == Get(ns, id) # <<>>

\* Mutant: only the first removed handle is pruned.
sync_removals_FirstOnly(ns, removals) ==
    IF removals = <<>> THEN ns ELSE ArenaRemove(ns, Head(removals))

\* LayoutDom::sync_removals
RECURSIVE sync_removals(_, _)
sync_removals(ns, removals) ==
    IF removals = <<>> THEN ns
    ELSE sync_removals(ArenaRemove(ns, Head(removals)), Tail(removals))

\* Mutant: the viewport is not scaled.
viewport_Unscaled(unscaled, scale) == unscaled

\* LayoutDom::viewport
viewport(unscaled, scale) ==
    RectFromPosSize(VDiv(unscaled.pos, scale), VDiv(unscaled.size, scale))

\* push_new_clip_stack; insert_at returns the value the slot held, and the
\* debug assertion wants none.
push_new_clip_stack(L, id) ==
    [L EXCEPT !.current_clip_stack = Append(@, id),
              !.clip_stack = ArenaInsertAt(@, id, <<>>),
              !.clashed = @ \/ L.clip_stack[Slot(id)].occ]

\* enable_clipping; cur is dom.current()
enable_clipping(L, cur) ==
    LET L1 == IF L.current_clip_stack = <<>> THEN push_new_clip_stack(L, cur) ELSE L
        top == Last(L1.current_clip_stack)
    IN  [L1 EXCEPT !.clip_stack = ArenaSet(@, top, Append(ArenaGet(@, top), cur))]

\* Mutant: the clip stack of the widget is pushed twice.
new_clip_stack_Twice(L, cur) ==
    enable_clipping(push_new_clip_stack(push_new_clip_stack(L, cur), cur), cur)

\* new_clip_stack
new_clip_stack(L, cur) == enable_clipping(push_new_clip_stack(L, cur), cur)

\* Mutant: no layer is pushed.
new_layer_NoPush(L, cur) == L

\* new_layer
new_layer(L, cur) == [L EXCEPT !.interests = PushLayer(@, cur)]

\* set_pos
set_pos(L, id, pos) ==
    IF ArenaContains(L.nodes, id)
    THEN [L EXCEPT !.nodes = ArenaSet(@, id, [ArenaGet(@, id) EXCEPT !.rect = RectSetPos(@, pos)])]
    ELSE L

\* clipped_by, as calculate() reads it off the active clip stack
ClippedBy_Top(cs, id) == IF cs # <<>> THEN Last(cs) ELSE NoId
ClippedBy(cs, id) ==
    IF cs # <<>> /\ Last(cs) = id
    THEN (IF Len(cs) >= 2 THEN cs[Len(cs) - 1] ELSE NoId)
    ELSE (IF cs # <<>> THEN Last(cs) ELSE NoId)

\* calculate(): the widget that enabled clipping leaves the clip stack.
PopClipStack(cs, clipping_enabled) == IF clipping_enabled THEN Front(cs) ELSE cs

\* Mutant: the widget that opened the active clip stack never closes it.
PopCurrentClipStack_Never(ccs, clip_stack_id, id) == ccs

\* calculate(): the widget that opened the active clip stack closes it.
PopCurrentClipStack(ccs, clip_stack_id, id) ==
    IF clip_stack_id = id THEN Front(ccs) ELSE ccs

\* Mutant: the entry is stored under a handle of another generation.
EntryKey_OtherGeneration(id) == <<Slot(id), Gen(id) + 1>>

\* The key calculate() stores the layout entry of id under.
EntryKey(id) == id

\* Mutant: no widget is taken for the root of the current layer.
IsNewLayer_Never(i, id) == FALSE

\* calculate(): the widget that called new_layer() is the root of the
\* current interest layer.
IsNewLayer(i, id) == CurrentLayerRoot(i) = id

\* calculate(), from the return of the widget's layout() to its own return.
\* calculate: the widget's interest is registered, and then the layer it
\* opened is popped.
RegisterInterest_PopFirst(i, id, interest, is_layer) ==
    LET i1 == IF is_layer THEN PopLayer(i) ELSE i
    IN  IF WantsRegistration(interest) THEN InterestsInsert(i1, id, interest) ELSE i1
RegisterInterest(i, id, interest, is_layer) ==
    LET i1 == IF WantsRegistration(interest) THEN InterestsInsert(i, id, interest) ELSE i
    IN  IF is_layer THEN PopLayer(i1) ELSE i1

CalculateFinish(L0, id, widget, size) ==
    LET is_layer == IsNewLayer(L0.interests, id)
        L1 == [L0 EXCEPT !.interests =
                             RegisterInterest(L0.interests, id, widget.interest, is_layer)]
        L2 == IF L1.current_clip_stack = <<>> THEN new_clip_stack(L1, id) ELSE L1
        clip_stack_id == Last(L2.current_clip_stack)
        cs == ArenaGet(L2.clip_stack, clip_stack_id)
        clipping_enabled == cs # <<>> /\ Last(cs) = id
        clipped_by == ClippedBy(cs, id)
        rect == RectFromPosSize(VZero, size)
        ns == ArenaInsertAt(L2.nodes, EntryKey(id),
                            LayoutDomNode(rect, is_layer, rect, clipped_by, widget.interest))
        cs1 == PopClipStack(cs, clipping_enabled)
        ccs == PopCurrentClipStack(L2.current_clip_stack, clip_stack_id, id)
    IN  [L2 EXCEPT !.nodes = ns,
                   !.clip_stack = ArenaSet(@, clip_stack_id, cs1),
                   !.current_clip_stack = ccs]

\* The clip call a widget makes at `when` ("pre" or "post" its children).
ClipCall(L, id, widget, when) ==
    IF widget.clipAt # when THEN L
    ELSE CASE widget.clip = "enable" -> enable_clipping(L, id)
           [] widget.clip = "new_stack" -> new_clip_stack(L, id)
           [] OTHER -> L

\* A widget's layout() up to its first calculate() of a child.
LayoutBegin(L, id, widget) ==
    LET L1 == IF widget.layer THEN new_layer(L, id) ELSE L
    IN  ClipCall(L1, id, widget, "pre")

RECURSIVE SetPosAll(_, _, _)
SetPosAll(L, ids, pos) ==
    IF ids = <<>> THEN L ELSE SetPosAll(set_pos(L, Head(ids), pos), Tail(ids), pos)

\* Mutant: the children are not moved by the pivot.
AbsoluteLayoutEnd_NoPivot(L, children, widget, cons, acc) ==
    [L |-> SetPosAll(L, children, VZero), size |-> ConstrainMin(cons, acc)]

\* AbsoluteWidget::layout after its children are measured: acc is the
\* component-wise maximum of their sizes.
AbsoluteLayoutEnd(L, children, widget, cons, acc) ==
    [L |-> SetPosAll(L, children, VNeg(VMul(acc, widget.pivot))),
     size |-> ConstrainMin(cons, acc)]

\* Mutant: the root reports no size.
RootLayoutEnd_ZeroSize(L, cons) == [L |-> L, size |-> VZero]

\* RootWidget::layout after its children
RootLayoutEnd(L, cons) == [L |-> L, size |-> cons.max]

\* The filling widget's layout() after its children
FillLayoutEnd(L, children, cons) ==
    [L |-> SetPosAll(L, children, VZero),
     size |-> IF cons.finite THEN cons.max ELSE cons.min]

\* A box's layout() after its children
BoxLayoutEnd(L, id, children, widget) ==
    [L |-> ClipCall(SetPosAll(L, children, widget.childPos), id, widget, "post"),
     size |-> widget.size]

LayoutEnd(L, id, children, widget, cons, acc) ==
    CASE widget.type = "root" -> RootLayoutEnd(L, cons)
      [] widget.type = "absolute" -> AbsoluteLayoutEnd(L, children, widget, cons, acc)
      [] widget.type = "fill" -> FillLayoutEnd(L, children, cons)
      [] OTHER -> BoxLayoutEnd(L, id, children, widget)

\* The constraints a widget hands to its children.
ChildConstraints(widget, cons) ==
    IF widget.type = "absolute" THEN ConstraintsNone ELSE cons

\* Flow::Absolute { anchor, offset }: the position it resolves to.
AbsolutePosition(vp, flow) ==
    VAdd(VMul(vp.size, flow.anchor), Dim2Resolve(flow.offset, vp.size))

\* Mutant: the parent's position is not added.
ResolvePos_NoParent(vp, flow, local, parent_pos) ==
    IF flow.abs THEN VAdd(VMul(vp.size, flow.anchor), Dim2Resolve(flow.offset, vp.size))
    ELSE local

\* Mutant: an absolute node is placed relative to its parent.
ResolvePos_AbsoluteInParent(vp, flow, local, parent_pos) ==
    IF flow.abs
    THEN VAdd(VAdd(VMul(vp.size, flow.anchor), Dim2Resolve(flow.offset, vp.size)), parent_pos)
    ELSE VAdd(local, parent_pos)

\* The position of a node in the position pass.
ResolvePos(vp, flow, local, parent_pos) ==
    IF flow.abs THEN AbsolutePosition(vp, flow) ELSE VAdd(local, parent_pos)

\* Mutant: the clip is the node's own rectangle, whoever clips it.
ResolveClip_Unclipped(ns, rect, clipped_by, id) == rect

ResolveClip_ViewportOrigin(ns, rect, clipped_by, id) ==
    IF clipped_by # NoId /\ clipped_by # id /\ ArenaContains(ns, clipped_by)
    THEN RectConstrain(ArenaGet(ns, clipped_by).clip, rect)
    ELSE RectSetPos(rect, VZero)

\* Mutant: the node's rectangle is constrained by the clip instead of the
\* clip by the rectangle.
ResolveClip_Swapped(ns, rect, clipped_by, id) ==
    IF clipped_by # NoId /\ clipped_by # id /\ ArenaContains(ns, clipped_by)
    THEN RectConstrain(rect, ArenaGet(ns, clipped_by).clip)
    ELSE rect

\* The clip of a node in the position pass: its rectangle, constrained
\* by the clip of the node that clips it, if that node has an entry.
ResolveClip(ns, rect, clipped_by, id) ==
    IF clipped_by # NoId /\ clipped_by # id /\ ArenaContains(ns, clipped_by)
    THEN RectConstrain(ArenaGet(ns, clipped_by).clip, rect)
    ELSE rect

\* resolve_positions: breadth first from the root; queue holds <<id, parent_pos>>.
RECURSIVE ResolveQueue(_, _, _, _)
ResolveQueue(ns, d, vp, queue) ==
    IF queue = <<>> THEN ns
    ELSE LET id == Head(queue)[1]
             parent_pos == Head(queue)[2]
         IN  IF ~ArenaContains(ns, id) THEN ResolveQueue(ns, d, vp, Tail(queue))
             ELSE LET n == ArenaGet(ns, id)
                      node == ArenaGet(d, id)
                      p == ResolvePos(vp, node.widget.flow, n.rect.pos, parent_pos)
                      rect == RectSetPos(n.rect, p)
                      clip == ResolveClip(ns, rect, n.clipped_by, id)
                      ns1 == ArenaSet(ns, id, [n EXCEPT !.rect = rect, !.clip = clip])
                      more == [k \in 1..Len(node.children) |-> <<node.children[k], p>>]
                  IN  ResolveQueue(ns1, d, vp, Tail(queue) \o more)

resolve_positions(ns, d, vp) == ResolveQueue(ns, d, vp, <<(<<Root, VZero>>)>>)

-----------------------------------------------------------------------------
(* PaintDom and yakui-wgpu *)

\* u32 at a width of U32Bits bits.
U32Max == 2^U32Bits - 1
\* f32 as u32: the cast saturates.
AsU32(x) == IF x < 0 THEN 0 ELSE IF x > U32Max THEN U32Max ELSE x
AsUVec2(v) == <<AsU32(v[1]), AsU32(v[2])>>
\* u32 + u32 past U32Max: a panic with overflow checks, a wrap without.
Overflows(a, b) == a + b > U32Max
WrappingAdd(a, b) == (a + b) % (U32Max + 1)
SaturatingSub(a, b) == IF a >= b THEN a - b ELSE 0
\* A length no u32 holds (an unbounded size).
Huge == 2 * (U32Max + 1)

NoClip == <<>>
NoTexture == 0
Textures == 1..MaxTextures

\* A paint call and its clip: PaintCall::Yakui (a mesh of `indices`
\* indices, a texture, a pipeline) or PaintCall::Custom (a callback).
\* `mesh` names the geometry or callback the call carries.
PaintCall(kind, pipeline, texture, clip) ==
    [kind |-> kind, pipeline |-> pipeline, texture |-> texture, clip |-> clip,
     indices |-> 3, mesh |-> 0]

\* PaintDom::new
PaintDomNew ==
    [frame |-> 0, pending |-> FALSE, textures |-> <<>>, modified |-> {},
     edits |-> {}, layers |-> <<>>, emitted |-> <<>>, surface_size |-> VZero]

\* The calls of a frame, numbered in the order they were emitted.
RECURSIVE Numbered(_, _)
Numbered(q, n) ==
    IF q = <<>> THEN <<>>
    ELSE <<[Head(q) EXCEPT !.mesh = n]>> \o Numbered(Tail(q), n + 1)

\* Texture diffing: the textures the frame references against the table
\* of the frame before.  `content` gives the pixels of each texture the
\* frame references.
TextureEdits(table, content) ==
    {<<t, "Added">> : t \in (DOMAIN content) \ (DOMAIN table)}
    \cup {<<t, "Removed">> : t \in (DOMAIN table) \ (DOMAIN content)}
    \cup {<<t, "Modified">> :
            t \in {u \in (DOMAIN table) \cap (DOMAIN content) : table[u] # content[u]}}

\* One frame of painting: the paint calls `q`, the first `split` of them
\* in the first layer and the rest in a layer above it.
PaintDomFrame(p, content, q, split, size) ==
    LET n == Numbered(q, 1)
    IN  [frame |-> p.frame + 1, pending |-> TRUE, textures |-> content,
         modified |-> {t \in (DOMAIN p.textures) \cap (DOMAIN content) :
                          p.textures[t] # content[t]},
         edits |-> TextureEdits(p.textures, content),
         layers |-> <<SubSeq(n, 1, split), SubSeq(n, split + 1, Len(n))>>,
         emitted |-> n,
         surface_size |-> size]

\* YakuiWgpu::new
YakuiWgpuNew ==
    [textures |-> ArenaNew, managed_textures |-> <<>>, commands |-> <<>>,
     panicked |-> FALSE]

\* thunderdome::Index::to_bits and from_bits: the generation above the
\* slot's bits; a generation of zero is no index.
IndexToBits(h) == Gen(h) * (U32Max + 1) + Slot(h)
IndexFromBits(bits) ==
    IF bits \div (U32Max + 1) = 0 THEN NoId
    ELSE <<bits % (U32Max + 1), bits \div (U32Max + 1)>>

\* yakui_core::TextureId
TextureIdUser(bits) == [kind |-> "User", bits |-> bits]
TextureIdManaged(t) == [kind |-> "Managed", bits |-> t]

GpuTexture(view, min_filter, mag_filter, mipmap_filter, address_mode) ==
    [view |-> view, min_filter |-> min_filter, mag_filter |-> mag_filter,
     mipmap_filter |-> mipmap_filter, address_mode |-> address_mode]

\* YakuiWgpu::add_texture
add_texture(textures, texture) ==
    LET index == ArenaNextId(textures)
    IN  [textures |-> ArenaInsertAt(textures, index, texture),
         id |-> TextureIdUser(IndexToBits(index))]

\* Arena::get_mut: the entry of that slot and generation, if any.
TextureExists_AnyGeneration(textures, index) ==
    Slot(index) \in Slots /\ textures[Slot(index)].occ
TextureExists(textures, index) ==
    Slot(index) \in Slots /\ ArenaContains(textures, index)

\* YakuiWgpu::update_texture
update_texture(textures, id, view) ==
    LET index == IF id.kind = "User" THEN IndexFromBits(id.bits) ELSE NoId
    IN  IF id.kind # "User" \/ index = NoId \/ ~TextureExists(textures, index)
        THEN [textures |-> textures, panicked |-> TRUE]
        ELSE [textures |-> [textures EXCEPT ![Slot(index)].val.view = view],
              panicked |-> FALSE]

\* A finite map with one more key, or a key less.
MapPut(m, k, v) == [x \in (DOMAIN m) \cup {k} |-> IF x = k THEN v ELSE m[x]]
MapDrop(m, k) == [x \in (DOMAIN m) \ {k} |-> m[x]]

\* Mutant: a removed texture stays in the renderer.
ApplyTextureChange_KeepRemoved(managed, textures, t, change) ==
    CASE change = "Added" -> MapPut(managed, t, textures[t])
      [] change = "Removed" -> managed
      [] OTHER -> IF t \in DOMAIN managed THEN MapPut(managed, t, textures[t]) ELSE managed

\* update_textures: one texture edit
ApplyTextureChange(managed, textures, t, change) ==
    CASE change = "Added" -> MapPut(managed, t, textures[t])
      [] change = "Removed" -> MapDrop(managed, t)
      [] OTHER -> IF t \in DOMAIN managed THEN MapPut(managed, t, textures[t]) ELSE managed

\* Mutant: the textures are updated after the early returns of paint_with.
update_textures_AfterEarlyReturn(managed, p) ==
    LET first == [t \in (DOMAIN managed) \cup (DOMAIN p.textures) |->
                     IF t \in DOMAIN managed THEN managed[t] ELSE p.textures[t]]
        RECURSIVE Apply(_, _)
        Apply(m, E) ==
            IF E = {} THEN m
            ELSE LET e == CHOOSE x \in E : TRUE
                 IN  Apply(ApplyTextureChange(m, p.textures, e[1], e[2]), E \ {e})
    IN  IF (\A k \in 1..Len(p.layers) : p.layers[k] = <<>>) \/ p.surface_size = VZero
        THEN managed
        ELSE Apply(first, p.edits)

\* update_textures: every texture of the PaintDom gets a GPU texture if
\* it has none, then the frame's texture edits are applied.
update_textures(managed, p) ==
    LET first == [t \in (DOMAIN managed) \cup (DOMAIN p.textures) |->
                     IF t \in DOMAIN managed THEN managed[t] ELSE p.textures[t]]
        RECURSIVE Apply(_, _)
        Apply(m, E) ==
            IF E = {} THEN m
            ELSE LET e == CHOOSE x \in E : TRUE
                 IN  Apply(ApplyTextureChange(m, p.textures, e[1], e[2]), E \ {e})
    IN  Apply(first, p.edits)

\* Mutant: the layers are taken last first.
Flatten_LastLayerFirst(layers) ==
    IF layers = <<>> THEN <<>>
    ELSE LET RECURSIVE Rev(_)
             Rev(q) == IF q = <<>> THEN <<>> ELSE Rev(Tail(q)) \o Head(q)
         IN  Rev(layers)

\* update_buffers: layers.into_iter().flat_map(|layer| layer.calls)
RECURSIVE Flatten(_)
Flatten(layers) ==
    IF layers = <<>> THEN <<>> ELSE Head(layers) \o Flatten(Tail(layers))

\* update_buffers: the texture view bound for a call; the default
\* texture when the call has none or the renderer does not know it.
BoundView(managed, texture) ==
    IF texture # NoTexture /\ texture \in DOMAIN managed THEN texture ELSE NoTexture

\* update_buffers: the draw commands of the calls, with the index range
\* of each in the shared index buffer.
RECURSIVE DrawCommands(_, _, _)
DrawCommands(q, managed, start) ==
    IF q = <<>> THEN <<>>
    ELSE LET c == Head(q)
         IN  IF c.kind = "yakui"
             THEN <<[kind |-> "yakui", mesh |-> c.mesh, pipeline |-> c.pipeline,
                     index_range |-> <<start, start + c.indices>>,
                     view |-> BoundView(managed, c.texture), clip |-> c.clip]>>
                  \o DrawCommands(Tail(q), managed, start + c.indices)
             ELSE <<[kind |-> "custom", mesh |-> c.mesh, pipeline |-> c.pipeline,
                     index_range |-> <<0, 0>>, view |-> NoTexture, clip |-> c.clip]>>
                  \o DrawCommands(Tail(q), managed, start)

update_buffers(managed, p) == DrawCommands(Flatten(p.layers), managed, 0)

\* paint_with: the clip against the surface, in unsigned integers.
ClipToSurface(clip, surf) ==
    LET pos == AsUVec2(clip.pos)
        size == AsUVec2(clip.size)
        max == VMin(<<WrappingAdd(pos[1], size[1]), WrappingAdd(pos[2], size[2])>>, surf)
        cut == <<SaturatingSub(max[1], pos[1]), SaturatingSub(max[2], pos[2])>>
    IN  [overflow |-> Overflows(pos[1], size[1]) \/ Overflows(pos[2], size[2]),
         skip |-> pos[1] > surf[1] \/ pos[2] > surf[2] \/ cut[1] = 0 \/ cut[2] = 0,
         rect |-> RectFromPosSize(pos, cut)]

\* The state of the render pass that the draw commands depend on.
PassState(vp, sc) == [viewport |-> vp, scissor |-> sc]

\* paint_with, first loop: every custom command sets the viewport to its
\* clip and the scissor to the surface, then finishes its preparation.
RECURSIVE PrepareAll(_, _, _, _)
PrepareAll(cmds, st, surf, checks) ==
    IF cmds = <<>> THEN [st |-> st, panicked |-> FALSE]
    ELSE LET c == Head(cmds)
             full == RectFromPosSize(VZero, surf)
         IN  IF c.kind # "custom" THEN PrepareAll(Tail(cmds), st, surf, checks)
             ELSE IF c.clip = NoClip
             THEN PrepareAll(Tail(cmds), PassState(st.viewport, full), surf, checks)
             ELSE LET k == ClipToSurface(c.clip, surf)
                  IN  IF k.overflow /\ checks THEN [st |-> st, panicked |-> TRUE]
                      ELSE IF k.skip THEN PrepareAll(Tail(cmds), st, surf, checks)
                      ELSE PrepareAll(Tail(cmds), PassState(k.rect, full), surf, checks)

\* A draw recorded into the render pass, with the viewport and scissor in
\* force: draw_indexed for a Yakui command, paint for a custom one.
Drawn(c, st) ==
    [op |-> IF c.kind = "yakui" THEN "draw_indexed" ELSE "paint",
     mesh |-> c.mesh, pipeline |-> c.pipeline, index_range |-> c.index_range,
     view |-> c.view, clip |-> c.clip, viewport |-> st.viewport, scissor |-> st.scissor]

\* paint_with, second loop: the commands in order; a command whose clip
\* cuts to nothing is skipped.
RECURSIVE DrawAll(_, _, _, _, _)
DrawAll(cmds, st, log, surf, checks) ==
    IF cmds = <<>> THEN [log |-> log, panicked |-> FALSE]
    ELSE LET c == Head(cmds)
             full == RectFromPosSize(VZero, surf)
             k == ClipToSurface(c.clip, surf)
         IN  IF c.clip # NoClip /\ k.overflow /\ checks
             THEN [log |-> log, panicked |-> TRUE]
             ELSE IF c.kind = "yakui"
             THEN IF c.clip # NoClip /\ k.skip
                  THEN DrawAll(Tail(cmds), PassState(full, st.scissor), log, surf, checks)
                  ELSE LET st1 == PassState(full, IF c.clip = NoClip THEN full ELSE k.rect)
                       IN  IF c.pipeline \in {"main", "text"}
                           THEN DrawAll(Tail(cmds), st1, Append(log, Drawn(c, st1)), surf, checks)
                           ELSE DrawAll(Tail(cmds), st1, log, surf, checks)
             ELSE IF c.clip # NoClip /\ k.skip
                  THEN DrawAll(Tail(cmds), st, log, surf, checks)
                  ELSE LET st1 == PassState(IF c.clip = NoClip THEN st.viewport ELSE k.rect, full)
                       IN  DrawAll(Tail(cmds), st1, Append(log, Drawn(c, st1)), surf, checks)

\* What the application paints.
R(p, z) == RectFromPosSize(p, z)
PaintClips ==
    {NoClip, R(<<1, 1>>, <<2, 2>>), R(<<3, 3>>, <<4, 4>>), R(<<4, 0>>, <<2, 2>>),
     R(<<1, 1>>, <<0, 2>>), R(<<-2, 0>>, <<2, 2>>), R(<<1, 0>>, <<Huge, 2>>)}
PaintSurfaces == {<<4, 4>>, VZero}
CallChoices ==
    {PaintCall("yakui", "main", NoTexture, c) : c \in PaintClips}
    \cup {PaintCall("yakui", "text", NoTexture, c) : c \in PaintClips}
    \cup {PaintCall("custom", "main", NoTexture, c) : c \in PaintClips}
\* Frames of paint calls: up to MaxCalls calls in two layers, no textures.
CallInputs ==
    {[content |-> <<>>, calls |-> q, split |-> k, size |-> z] :
        q \in UNION {[1..n -> CallChoices] : n \in 0..MaxCalls},
        k \in 0..MaxCalls, z \in PaintSurfaces}
\* Frames of textures: each texture referenced or not, the first with
\* either of two contents; one mesh drawn with the first texture.
TextureContents ==
    UNION {[S -> {1, 2}] : S \in SUBSET Textures}
TextureInputs ==
    {[content |-> f, calls |-> <<PaintCall("yakui", "main", 1, NoClip)>>,
      split |-> 1, size |-> <<4, 4>>] :
        f \in {g \in TextureContents : \A t \in DOMAIN g : t # 1 => g[t] = 1}}
\* Frames of textures with or without a paint call, on a surface with or
\* without an area.
EarlyInputs ==
    {[content |-> f, calls |-> q, split |-> Len(q), size |-> z] :
        f \in {g \in TextureContents : \A t \in DOMAIN g : t # 1 => g[t] = 1},
        q \in {<<>>, <<PaintCall("yakui", "main", NoTexture, NoClip)>>},
        z \in PaintSurfaces}
PaintInputs(c) ==
    IF c = "textures" THEN TextureInputs
    ELSE IF c = "early" THEN EarlyInputs
    ELSE {i \in CallInputs : i.split <= Len(i.calls)}

-----------------------------------------------------------------------------
(* yakui-app: Multisampling *)

\* A texture view the device created: the descriptor it was created with.
View(width, height, format, sample_count) ==
    [width |-> width, height |-> height, format |-> format, sample_count |-> sample_count]
NoView == <<>>
\* The surface's own view, passed in by the caller.
SurfaceView == [width |-> 0, height |-> 0, format |-> "surface", sample_count |-> 1]

\* Multisampling::new
MultisamplingNew ==
    [sample_count |-> 4, format |-> "Rgba8UnormSrgb", size |-> <<800, 600>>,
     ms_view |-> NoView]

\* surface_info: the cached view is dropped when the call differs from
\* the fields of self.
Invalidate(m, config, format, sample_count) ==
    IF \/ config[1] # m.size[1] \/ config[2] # m.size[2]
       \/ format # m.format \/ sample_count # m.sample_count
    THEN [m EXCEPT !.ms_view = NoView]
    ELSE m

\* surface_info: [m: self after the call, view: the colour attachment's
\* view, created: the textures the device created in the call].
surface_info(m, config, format, sample_count) ==
    LET m1 == Invalidate(m, config, format, sample_count)
    IN  IF sample_count = 1
        THEN [m |-> m1, view |-> SurfaceView, created |-> <<>>]
        ELSE IF m1.ms_view = NoView
        THEN LET v == View(config[1], config[2], format, sample_count)
             IN  [m |-> [m1 EXCEPT !.ms_view = v], view |-> v, created |-> <<v>>]
        ELSE [m |-> m1, view |-> m1.ms_view, created |-> <<>>]

\* The surface configurations, formats and sample counts of the application.
\* The texture views, samplers and texture ids the application passes.
TextureViews == {1, 2}
SamplerInputs ==
    {<<"Nearest", "Nearest", "Nearest", "ClampToEdge">>,
     <<"Linear", "Linear", "Nearest", "Repeat">>}
TextureIdInputs ==
    {TextureIdUser(IndexToBits(<<s, 1>>)) : s \in Slots}
       \cup {TextureIdUser(0), TextureIdUser(IndexToBits(<<0, 2>>)),
             TextureIdUser(IndexToBits(<<U32Max, 1>>)), TextureIdManaged(1),
             TextureIdManaged(IndexToBits(<<0, 1>>))}

SurfaceSizes == {<<800, 600>>, <<1024, 768>>}
SurfaceFormats == {"Rgba8UnormSrgb", "Bgra8UnormSrgb"}
SampleCounts == {1, 2, 4}

-----------------------------------------------------------------------------
(* layout::clipping and layout::clip_rect *)

\* AbstractClipRect
ParentClip == [kind |-> "ParentClip", rect |-> RectZero]
LayoutRect == [kind |-> "LayoutRect", rect |-> RectZero]
ViewportRect == [kind |-> "Viewport", rect |-> RectZero]
Value(rect) == [kind |-> "Value", rect |-> rect]

\* AbstractClipRect::to_rect
to_rect_ViewportAsParent(self, parent_clip, layout_rect, vp) ==
    CASE self.kind = "LayoutRect" -> layout_rect
      [] self.kind = "Value" -> self.rect
      [] OTHER -> parent_clip
to_rect(self, parent_clip, layout_rect, vp) ==
    CASE self.kind = "ParentClip" -> parent_clip
      [] self.kind = "LayoutRect" -> layout_rect
      [] self.kind = "Viewport" -> vp
      [] self.kind = "Value" -> self.rect

\* ClipLogic
Pass == [kind |-> "Pass", a |-> ParentClip, b |-> ParentClip]
Constrain(a, b) == [kind |-> "Constrain", a |-> a, b |-> b]
Override(rect) == [kind |-> "Override", a |-> rect, b |-> rect]

\* ClipLogic::resolve
resolve(self, parent_clip, layout_rect, vp) ==
    CASE self.kind = "Pass" -> parent_clip
      [] self.kind = "Constrain" ->
            RectConstrain(to_rect(self.a, parent_clip, layout_rect, vp),
                          to_rect(self.b, parent_clip, layout_rect, vp))
      [] self.kind = "Override" -> to_rect(self.a, parent_clip, layout_rect, vp)

\* ClipRect
Unresolved == [kind |-> "Unresolved", rect |-> RectZero]
EntireViewport == [kind |-> "EntireViewport", rect |-> RectZero]
Resolved(rect) == [kind |-> "Resolved", rect |-> rect]

\* ClipRect::get_rect
get_rect(self, vp) ==
    CASE self.kind = "Unresolved" -> RectZero
      [] self.kind = "EntireViewport" -> vp
      [] self.kind = "Resolved" -> self.rect

\* ClipRect::resolve_rect
resolve_rect(self, layout_rect, parent_rect, vp) ==
    CASE self.kind = "Unresolved" -> RectConstrain(parent_rect, layout_rect)
      [] self.kind = "EntireViewport" -> vp
      [] self.kind = "Resolved" -> self.rect

\* The rectangles and the clip logic a widget passes.
ClipRects ==
    {RectFromPosSize(<<0, 0>>, <<4, 4>>), RectFromPosSize(<<1, 1>>, <<2, 2>>),
     RectFromPosSize(<<3, 0>>, <<2, 2>>), RectFromPosSize(<<0, 3>>, <<1, 1>>)}
AbstractClipRects == {ParentClip, LayoutRect, ViewportRect} \cup {Value(r) : r \in ClipRects}
ClipLogics ==
    {Pass} \cup {Override(r) : r \in AbstractClipRects}
       \cup {Constrain(a, b) : a \in AbstractClipRects, b \in AbstractClipRects}
ClipRectStates == {Unresolved, EntireViewport} \cup {Resolved(r) : r \in ClipRects}

-----------------------------------------------------------------------------
(* yakui-widgets TextBox *)

\* Option<T>: None, or Some(v).
None == <<>>
Some(v) == <<v>>

\* TextBox::new
TextBoxNew(update_text) ==
    [update_text |-> update_text, inline_edit |-> TRUE, multiline |-> FALSE]

\* cosmic_text::Editor over an empty buffer: the text as its characters,
\* a line break being the character "\n", and the cursor as the number of
\* characters before it.
\* The selection is None, or Some(anchor) for the text between the anchor
\* and the cursor.
EditorNew == [text |-> <<>>, cursor |-> 0, selection |-> None]
\* Buffer::set_text
SetText(editor, t) == [editor EXCEPT !.text = t]
\* Editor::set_cursor(Cursor::new(0, 0))
SetCursorHome(editor) == [editor EXCEPT !.cursor = 0]
\* The cursor where a click landed, at most at the end of the text.
Hit(editor, at) == Min2(at, Len(editor.text))
\* Action::Click: the selection is dropped and the cursor put where the
\* click landed.
Click(editor, at) == [editor EXCEPT !.selection = None, !.cursor = Hit(editor, at)]
\* Action::Drag: the selection is anchored at the cursor if there is none,
\* and the cursor put where the pointer is.
Drag(editor, at) ==
    [editor EXCEPT !.selection = IF @ = None THEN Some(editor.cursor) ELSE @,
                   !.cursor = Hit(editor, at)]
\* Editor::delete_selection: the selected text is removed, the cursor put
\* where it began and the selection dropped.
DeleteSelection(editor) ==
    IF editor.selection = None THEN editor
    ELSE LET a == Min2(Min2(editor.selection[1], editor.cursor), Len(editor.text))
             b == Min2(Max2(editor.selection[1], editor.cursor), Len(editor.text))
         IN  [text |-> SubSeq(editor.text, 1, a) \o SubSeq(editor.text, b + 1, Len(editor.text)),
              cursor |-> a, selection |-> None]
\* Action::Insert(c), and Action::Enter as the insertion of a line break.
Insert(editor, c) ==
    LET ed == DeleteSelection(editor)
    IN  [ed EXCEPT !.text = SubSeq(ed.text, 1, ed.cursor) \o <<c>>
                                \o SubSeq(ed.text, ed.cursor + 1, Len(ed.text)),
                   !.cursor = ed.cursor + 1]
\* Action::Backspace
Backspace(editor) ==
    LET ed == DeleteSelection(editor)
    IN  IF editor.selection # None \/ ed.cursor = 0 THEN ed
        ELSE [ed EXCEPT !.text = SubSeq(ed.text, 1, ed.cursor - 1)
                                    \o SubSeq(ed.text, ed.cursor + 1, Len(ed.text)),
                        !.cursor = ed.cursor - 1]

\* TextBoxWidget::new
TextBoxWidgetNew ==
    [props |-> TextBoxNew(None), active |-> FALSE, activated |-> FALSE,
     lost_focus |-> FALSE, drag |-> "None", cosmic_editor |-> None,
     text_changed |-> FALSE]

\* TextBoxWidget::update: the widget after it, and the response.
TextBoxUpdate_KeepActivated(w, props) ==
    [w |-> [w EXCEPT !.props = props, !.text_changed = FALSE, !.lost_focus = FALSE],
     response |-> [text |-> IF w.text_changed /\ w.cosmic_editor # None
                            THEN Some(w.cosmic_editor[1].text) ELSE None,
                   activated |-> w.activated, lost_focus |-> w.lost_focus]]
TextBoxUpdate(w, props) ==
    LET text == IF w.cosmic_editor # None THEN Some(w.cosmic_editor[1].text) ELSE None
    IN  [w |-> [w EXCEPT !.props = props, !.text_changed = FALSE,
                         !.activated = FALSE, !.lost_focus = FALSE],
         response |-> [text |-> IF w.text_changed THEN text ELSE None,
                       activated |-> w.activated, lost_focus |-> w.lost_focus]]

\* TextBoxWidget::layout: the editor is created when there is none, and
\* the text of the props, if any, replaces the editor's.
TextBoxLayout(w) ==
    LET editor == IF w.cosmic_editor = None THEN EditorNew ELSE w.cosmic_editor[1]
    IN  IF w.props.update_text # None
        THEN [w EXCEPT !.cosmic_editor =
                           Some(SetCursorHome(SetText(editor, w.props.update_text[1]))),
                       !.text_changed = TRUE]
        ELSE [w EXCEPT !.cosmic_editor = Some(editor)]

\* WidgetEvent values.
FocusChanged(focused) == [kind |-> "FocusChanged", focused |-> focused]
MouseMoved(position) == [kind |-> "MouseMoved", position |-> position]
MouseButtonChanged(inside, down, at, shift) ==
    [kind |-> "MouseButtonChanged", inside |-> inside, down |-> down, at |-> at,
     shift |-> shift]
KeyChanged(key, down, shift) ==
    [kind |-> "KeyChanged", key |-> key, down |-> down, shift |-> shift]
TextInput(c, control) == [kind |-> "TextInput", c |-> c, control |-> control]

\* The Enter branch of TextBoxWidget::event, for a key that went down.
EnterDown_AlwaysActivates(w, sel, e) ==
    [w |-> [w EXCEPT !.activated = TRUE], selection |-> FALSE]
EnterDown(w, sel, e) ==
    IF w.props.inline_edit /\ ~(w.props.multiline /\ e.shift)
    THEN [w |-> [w EXCEPT !.activated = TRUE], selection |-> FALSE]
    ELSE [w |-> [w EXCEPT !.cosmic_editor = Some(Insert(w.cosmic_editor[1], "\n")),
                          !.text_changed = TRUE],
          selection |-> sel]

\* The MouseMoved(Some(position)) branch of TextBoxWidget::event; layout
\* tells whether the LayoutDom has an entry for the text box.
MouseMovedSome_DragAtOnce(w, sel, layout, e) ==
    IF w.drag = "None" THEN [w |-> w, selection |-> sel, response |-> "Bubble"]
    ELSE [w |-> [w EXCEPT !.drag = "Dragging",
                          !.cosmic_editor =
                              IF layout /\ @ # None
                              THEN Some(Drag(@[1], e.position[1])) ELSE @],
          selection |-> sel, response |-> "Sink"]
MouseMovedSome(w, sel, layout, e) ==
    IF w.drag = "DragStart"
    THEN [w |-> [w EXCEPT !.drag = "Dragging"], selection |-> sel, response |-> "Sink"]
    ELSE IF w.drag = "Dragging"
    THEN [w |-> IF layout /\ w.cosmic_editor # None
                THEN [w EXCEPT !.cosmic_editor = Some(Drag(@[1], e.position[1]))]
                ELSE w,
          selection |-> sel, response |-> "Sink"]
    ELSE [w |-> w, selection |-> sel, response |-> "Bubble"]

\* The MouseButtonChanged branch of TextBoxWidget::event for button One.
MouseButtonOne_OutsideSelects(w, sel, layout, e) ==
    [w |-> IF ~layout THEN w
           ELSE IF e.down
           THEN [w EXCEPT !.drag = IF @ = "None" THEN "DragStart" ELSE @,
                          !.cosmic_editor =
                              IF @ = None THEN None
                              ELSE IF e.shift THEN Some(Drag(@[1], e.at))
                              ELSE Some(Click(@[1], e.at))]
           ELSE [w EXCEPT !.drag = "None"],
     selection |-> TRUE, response |-> "Sink"]
MouseButtonOne(w, sel, layout, e) ==
    IF ~e.inside THEN [w |-> w, selection |-> sel, response |-> "Sink"]
    ELSE [w |-> IF ~layout THEN w
                ELSE IF e.down
                THEN [w EXCEPT !.drag = IF @ = "None" THEN "DragStart" ELSE @,
                               !.cosmic_editor =
                                   IF @ = None THEN None
                                   ELSE IF e.shift THEN Some(Drag(@[1], e.at))
                                   ELSE Some(Click(@[1], e.at))]
                ELSE [w EXCEPT !.drag = "None"],
          selection |-> TRUE, response |-> "Sink"]

\* TextBoxWidget::event: the widget and the input selection after it,
\* and the response (Sink or Bubble).
TextBoxEvent(w, sel, layout, e) ==
    LET same(r) == [w |-> w, selection |-> sel, response |-> r]
        with(v, r) == [w |-> v, selection |-> sel, response |-> r]
    IN  CASE e.kind = "FocusChanged" ->
               IF e.focused THEN with([w EXCEPT !.active = TRUE], "Sink")
               ELSE with([w EXCEPT !.active = FALSE, !.lost_focus = TRUE,
                                   !.cosmic_editor =
                                       IF @ = None THEN None ELSE Some(SetCursorHome(@[1]))],
                         "Sink")
          [] e.kind = "MouseMoved" ->
               IF e.position # None THEN MouseMovedSome(w, sel, layout, e)
               ELSE same("Bubble")
          [] e.kind = "MouseButtonChanged" -> MouseButtonOne(w, sel, layout, e)
          [] e.kind = "KeyChanged" ->
               IF w.cosmic_editor = None THEN same("Bubble")
               ELSE IF ~e.down THEN same("Sink")
               ELSE IF e.key \in {"Enter", "NumpadEnter"}
                    THEN LET r == EnterDown(w, sel, e)
                         IN  [w |-> r.w, selection |-> r.selection, response |-> "Sink"]
               ELSE IF e.key = "Backspace"
                    THEN with([w EXCEPT !.cosmic_editor = Some(Backspace(@[1])),
                                        !.text_changed = TRUE], "Sink")
               ELSE IF e.key = "Escape"
                    THEN [w |-> w, selection |-> IF w.props.inline_edit THEN FALSE ELSE sel,
                          response |-> "Sink"]
               ELSE same("Sink")
          [] e.kind = "TextInput" ->
               IF e.control THEN same("Bubble")
               ELSE IF w.cosmic_editor = None THEN same("Sink")
               ELSE with([w EXCEPT !.cosmic_editor = Some(Insert(@[1], e.c)),
                                   !.text_changed = TRUE], "Sink")

\* The props the application passes and the events the text box gets.
TextBoxProps ==
    {[TextBoxNew(t) EXCEPT !.inline_edit = i, !.multiline = m] :
        t \in {None, Some(<<"b">>)}, i \in BOOLEAN, m \in BOOLEAN}
\* The props and the events of a text box whose text is selected with
\* the pointer.
DragProps == {TextBoxNew(None), TextBoxNew(Some(<<"b", "c">>))}
DragEvents ==
    {MouseMoved(Some(at)) : at \in 0..MaxText}
       \cup {MouseMoved(None)}
       \cup {MouseButtonChanged(i, d, at, sh) :
                 i \in BOOLEAN, d \in BOOLEAN, at \in {0, MaxText}, sh \in BOOLEAN}
TextBoxEvents ==
    {FocusChanged(f) : f \in BOOLEAN}
       \cup {MouseButtonChanged(i, TRUE, 0, FALSE) : i \in BOOLEAN}
       \cup {KeyChanged(k, d, sh) : k \in {"Enter", "NumpadEnter"},
                                    d \in BOOLEAN, sh \in BOOLEAN}
       \cup {KeyChanged("Backspace", d, FALSE) : d \in BOOLEAN}
       \cup {TextInput("a", FALSE), TextInput("\t", TRUE)}

-----------------------------------------------------------------------------
(* The frame loop *)

Frame(id, cons) == [id |-> id, cons |-> cons, i |-> 1, acc |-> VZero]

SetLayout(L) ==
    /\ nodes' = L.nodes
    /\ clip_stack' = L.clip_stack
    /\ current_clip_stack' = L.current_clip_stack
    /\ interests' = L.interests
    /\ clashed' = L.clashed

RectOne == RectFromPosSize(VZero, <<1, 1>>)

InitOf(c) ==
    /\ catalogue = c
    /\ dom = DomNew
    /\ removed = <<>>
    /\ nodes = ArenaNew
    /\ clip_stack = ArenaNew
    /\ current_clip_stack = <<>>
    /\ interests = InterestsNew
    /\ unscaled_viewport = RectOne
    /\ scale_factor = 1
    /\ stack = <<>>
    /\ phase = "idle"
    /\ frame = 0
    /\ prev = [dom |-> DomNew, nodes |-> ArenaNew]
    /\ calls = <<>>
    /\ clashed = FALSE
    /\ paint = PaintDomNew
    /\ renderer = YakuiWgpuNew
    /\ render_pass = <<>>
    /\ texture_log = <<>>
    /\ texture_calls = <<>>
    /\ multisampling = MultisamplingNew
    /\ surface = [calls |-> 0, created |-> <<>>, call |-> <<>>, view |-> NoView]
    /\ textbox = TextBoxWidgetNew
    /\ selection = FALSE
    /\ text_pending = {}
    /\ text_call = <<>>
    /\ text_layout = FALSE
    /\ clipping = <<>>

\* set_unscaled_viewport
SetUnscaledViewport ==
    /\ phase = "idle" /\ frame = 0 /\ scale_factor = 1
    /\ \E view \in ViewportsOf(catalogue) :
          /\ view # unscaled_viewport
          /\ unscaled_viewport' = view
    /\ UNCHANGED <<dom, removed, nodes, clip_stack, current_clip_stack, interests,
                   scale_factor, stack, phase, frame, prev, catalogue>>
    /\ UNCHANGED <<calls, clashed>>
    /\ UNCHANGED <<paintVars, surfaceVars, textVars, clipVars>>

\* set_scale_factor
SetScaleFactor ==
    /\ phase = "idle" /\ frame = 0
    /\ \E scale \in ScaleFactors :
          /\ scale # scale_factor
          /\ unscaled_viewport.size[1] % scale = 0
          /\ unscaled_viewport.size[2] % scale = 0
          /\ scale_factor' = scale
    /\ UNCHANGED <<dom, removed, nodes, clip_stack, current_clip_stack, interests,
                   unscaled_viewport, stack, phase, frame, prev, catalogue>>
    /\ UNCHANGED <<calls, clashed>>
    /\ UNCHANGED <<paintVars, surfaceVars, textVars, clipVars>>

\* The application declares a frame; the Dom reconciles it and sweeps.
DeclareFrame ==
    /\ phase = "idle"
    /\ frame < FramesOf(catalogue)
    /\ \E decl \in Decls(catalogue) :
          /\ DomFits(dom, decl)
          /\ LET r == DomFrame(dom, decl)
             IN  /\ dom' = r.dom
                 /\ removed' = r.removed
    /\ prev' = [dom |-> dom, nodes |-> nodes]
    /\ frame' = frame + 1
    /\ phase' = "sync"
    /\ UNCHANGED <<nodes, clip_stack, current_clip_stack, interests,
                   unscaled_viewport, scale_factor, stack, catalogue>>
    /\ UNCHANGED <<calls, clashed>>
    /\ UNCHANGED <<paintVars, surfaceVars, textVars, clipVars>>

\* layout.sync_removals(dom.removed_nodes())
SyncRemovals ==
    /\ phase = "sync"
    /\ nodes' = sync_removals(nodes, removed)
    /\ phase' = "synced"
    /\ UNCHANGED <<dom, removed, clip_stack, current_clip_stack, interests,
                   unscaled_viewport, scale_factor, stack, frame, prev, catalogue>>
    /\ UNCHANGED <<calls, clashed>>
    /\ UNCHANGED <<paintVars, surfaceVars, textVars, clipVars>>

\* calculate_all, up to the root widget's first calculate() of a child
CalculateAll ==
    /\ phase = "synced"
    /\ LET L0 == [nodes |-> nodes, clip_stack |-> ArenaNew,
                  current_clip_stack |-> <<>>, interests |-> InterestsClear(interests),
                  clashed |-> clashed]
           cons == ConstraintsTight(viewport(unscaled_viewport, scale_factor).size)
       IN  /\ SetLayout(LayoutBegin(L0, Root, DomWidget(dom, Root)))
           /\ stack' = <<Frame(Root, cons)>>
    /\ calls' = <<Root>>
    /\ phase' = "layout"
    /\ UNCHANGED <<dom, removed, unscaled_viewport, scale_factor, frame, prev, catalogue>>
    /\ UNCHANGED <<paintVars, surfaceVars, textVars, clipVars>>

\* The innermost widget's layout() calls calculate() for its next child,
\* which runs up to the child's own first calculate() call.
CalculateChild ==
    /\ phase = "layout"
    /\ LET top == Last(stack)
           w == DomWidget(dom, top.id)
           children == DomChildren(dom, top.id)
       IN  /\ w.recurse
           /\ top.i <= Len(children)
           /\ LET child == children[top.i]
              IN  /\ SetLayout(LayoutBegin(LayoutState, child, DomWidget(dom, child)))
                  /\ stack' = Append(stack, Frame(child, ChildConstraints(w, top.cons)))
                  /\ calls' = Append(calls, child)
    /\ UNCHANGED <<dom, removed, unscaled_viewport, scale_factor, phase, frame,
                   prev, catalogue>>
    /\ UNCHANGED <<paintVars, surfaceVars, textVars, clipVars>>

\* The innermost widget's layout() finishes and its calculate() returns.
CalculateReturn ==
    /\ phase = "layout"
    /\ LET top == Last(stack)
           w == DomWidget(dom, top.id)
           children == DomChildren(dom, top.id)
       IN  /\ (~w.recurse \/ top.i > Len(children))
           /\ LET r == LayoutEnd(LayoutState, top.id, children, w, top.cons, top.acc)
              IN  /\ SetLayout(CalculateFinish(r.L, top.id, w, r.size))
                  /\ IF Len(stack) = 1
                     THEN /\ stack' = <<>>
                          /\ phase' = "resolve"
                     ELSE /\ stack' = [Front(stack) EXCEPT
                                         ![Len(stack) - 1].i = @ + 1,
                                         ![Len(stack) - 1].acc = VMax(@, r.size)]
                          /\ phase' = phase
    /\ UNCHANGED <<dom, removed, unscaled_viewport, scale_factor, frame, prev, catalogue,
                   calls>>
    /\ UNCHANGED <<paintVars, surfaceVars, textVars, clipVars>>

\* calculate_all: resolve_positions, then return
ResolvePositions ==
    /\ phase = "resolve"
    /\ nodes' = resolve_positions(nodes, dom, viewport(unscaled_viewport, scale_factor))
    /\ phase' = "idle"
    /\ UNCHANGED <<dom, removed, clip_stack, current_clip_stack, interests,
                   unscaled_viewport, scale_factor, stack, frame, prev, catalogue>>
    /\ UNCHANGED <<calls, clashed>>
    /\ UNCHANGED <<paintVars, surfaceVars, textVars, clipVars>>

\* The application asks for the surface of a frame.
SurfaceInfo ==
    /\ surface.calls < MaxFrames
    /\ \E config \in SurfaceSizes : \E format \in SurfaceFormats :
       \E sample_count \in SampleCounts :
          LET r == surface_info(multisampling, config, format, sample_count)
          IN  /\ multisampling' = r.m
              /\ surface' = [calls |-> surface.calls + 1,
                             created |-> surface.created \o r.created,
                             call |-> View(config[1], config[2], format, sample_count),
                             view |-> r.view]
    /\ UNCHANGED <<layoutVars, paintVars, textVars, clipVars, catalogue>>

\* Yakui::paint: the PaintDom of the frame.
PaintFrame ==
    /\ ~paint.pending /\ ~renderer.panicked
    /\ paint.frame < FramesOf(catalogue)
    /\ \E i \in PaintInputs(catalogue) :
          paint' = PaintDomFrame(paint, i.content, i.calls, i.split, i.size)
    /\ UNCHANGED <<renderer, render_pass, texture_log, texture_calls>>
    /\ UNCHANGED <<layoutVars, surfaceVars, textVars, clipVars, catalogue>>

\* YakuiWgpu::paint_with, into a new render pass; the build has overflow
\* checks or not.
PaintWith ==
    /\ paint.pending /\ ~renderer.panicked
    /\ texture_log' = Append(texture_log,
                             [textures |-> DOMAIN paint.textures,
                              modified |-> paint.modified, edits |-> paint.edits])
    /\ \E checks \in BOOLEAN :
          LET managed == update_textures(renderer.managed_textures, paint)
              surf == AsUVec2(paint.surface_size)
          IN  IF \/ \A k \in 1..Len(paint.layers) : paint.layers[k] = <<>>
                 \/ paint.surface_size = VZero
              THEN /\ renderer' = [renderer EXCEPT !.managed_textures = managed]
                   /\ render_pass' = <<>>
                   /\ paint' = [paint EXCEPT !.pending = FALSE]
              ELSE LET cmds == update_buffers(managed, paint)
                       st0 == PassState(RectFromPosSize(VZero, surf), RectFromPosSize(VZero, surf))
                       pre == PrepareAll(cmds, st0, surf, checks)
                       d == IF pre.panicked THEN [log |-> <<>>, panicked |-> TRUE]
                            ELSE DrawAll(cmds, pre.st, <<>>, surf, checks)
                   IN  /\ renderer' = [renderer EXCEPT !.managed_textures = managed,
                                                        !.commands = cmds,
                                                        !.panicked = d.panicked]
                       /\ render_pass' = d.log
                       /\ paint' = [paint EXCEPT !.pending = FALSE, !.layers = <<>>]
    /\ UNCHANGED <<texture_calls, layoutVars, surfaceVars, textVars, clipVars, catalogue>>

\* The application registers a texture of its own with the renderer.
AddTexture ==
    /\ ~renderer.panicked
    /\ Len(texture_calls) <= MaxFrames
    /\ ArenaFreeSlots(renderer.textures) # {}
    /\ \E view \in TextureViews : \E sampler \in SamplerInputs :
          LET r == add_texture(renderer.textures,
                               GpuTexture(view, sampler[1], sampler[2], sampler[3], sampler[4]))
          IN  /\ renderer' = [renderer EXCEPT !.textures = r.textures]
              /\ texture_calls' = Append(texture_calls,
                                         [op |-> "add_texture", id |-> r.id, view |-> view])
    /\ UNCHANGED <<paint, render_pass, texture_log>>
    /\ UNCHANGED <<layoutVars, surfaceVars, textVars, clipVars, catalogue>>

\* The application hands the renderer a new view for a texture id.
UpdateTexture ==
    /\ ~renderer.panicked
    /\ Len(texture_calls) <= MaxFrames
    /\ \E id \in TextureIdInputs : \E view \in TextureViews :
          LET r == update_texture(renderer.textures, id, view)
          IN  /\ renderer' = [renderer EXCEPT !.textures = r.textures,
                                               !.panicked = r.panicked]
              /\ texture_calls' = Append(texture_calls,
                                         [op |-> "update_texture", id |-> id, view |-> view])
    /\ UNCHANGED <<paint, render_pass, texture_log>>
    /\ UNCHANGED <<layoutVars, surfaceVars, textVars, clipVars, catalogue>>

\* What an event is to the text box it reaches: the loss of focus, an
\* Enter that activates, an edit of the text, or nothing of these.
Happened(w, e) ==
    IF e.kind = "FocusChanged" /\ ~e.focused THEN {"lost_focus"}
    ELSE IF w.cosmic_editor = None THEN {}
    ELSE IF e.kind = "TextInput" /\ ~e.control THEN {"text"}
    ELSE IF e.kind = "KeyChanged" /\ e.down /\ e.key = "Backspace" THEN {"text"}
    ELSE IF e.kind = "KeyChanged" /\ e.down /\ e.key \in {"Enter", "NumpadEnter"}
         THEN IF w.props.inline_edit /\ (~w.props.multiline \/ ~e.shift)
              THEN {"activated"} ELSE {"text"}
    ELSE {}

\* The text of the box has at most MaxText characters.
TextFits(w) == w.cosmic_editor # None => Len(w.cosmic_editor[1].text) <= MaxText

\* The application declares the text box in a frame.
UpdateTextBox ==
    /\ \E props \in (IF catalogue = "drag" THEN DragProps ELSE TextBoxProps) :
          LET r == TextBoxUpdate(textbox, props)
          IN  /\ textbox' = r.w
              /\ text_call' = [op |-> "update", response |-> r.response]
    /\ text_pending' = {}
    /\ UNCHANGED <<selection, text_layout>>
    /\ UNCHANGED <<layoutVars, paintVars, surfaceVars, clipVars, catalogue>>

\* The layout pass reaches the text box.
LayoutTextBox ==
    /\ text_call # <<>>
    /\ textbox' = TextBoxLayout(textbox)
    /\ text_pending' = text_pending
                          \cup (IF textbox.props.update_text # None THEN {"text"} ELSE {})
    /\ text_call' = [op |-> "layout"]
    /\ text_layout' = TRUE
    /\ UNCHANGED selection
    /\ UNCHANGED <<layoutVars, paintVars, surfaceVars, clipVars, catalogue>>

\* An event is delivered to the text box.
EventTextBox ==
    /\ text_call # <<>>
    /\ \E e \in (IF catalogue = "drag" THEN DragEvents ELSE TextBoxEvents) :
          LET r == TextBoxEvent(textbox, selection, text_layout, e)
          IN  /\ TextFits(r.w)
              /\ textbox' = r.w
              /\ selection' = r.selection
              /\ text_pending' = text_pending \cup Happened(textbox, e)
              /\ text_call' = [op |-> "event", event |-> e, response |-> r.response]
    /\ UNCHANGED text_layout
    /\ UNCHANGED <<layoutVars, paintVars, surfaceVars, clipVars, catalogue>>

TextBoxNext ==
    \/ UpdateTextBox
    \/ LayoutTextBox
    \/ EventTextBox

\* A widget's clip logic is resolved against its parent's clip, its
\* layout rectangle and the viewport.
ResolveClipLogic ==
    /\ clipping = <<>>
    /\ \E logic \in ClipLogics : \E parent_clip \in ClipRects :
       \E layout_rect \in ClipRects : \E vp \in ClipRects :
          clipping' = [op |-> "resolve", self |-> logic, parent_clip |-> parent_clip,
                       layout_rect |-> layout_rect, viewport |-> vp,
                       result |-> resolve(logic, parent_clip, layout_rect, vp)]
    /\ UNCHANGED <<layoutVars, paintVars, surfaceVars, textVars, catalogue>>

\* A clip rectangle state is resolved, or read as it is.
ResolveClipRect ==
    /\ clipping = <<>>
    /\ \E state \in ClipRectStates : \E parent_clip \in ClipRects :
       \E layout_rect \in ClipRects : \E vp \in ClipRects :
          clipping' = [op |-> "resolve_rect", self |-> state, parent_clip |-> parent_clip,
                       layout_rect |-> layout_rect, viewport |-> vp,
                       result |-> resolve_rect(state, layout_rect, parent_clip, vp),
                       rect |-> get_rect(state, vp)]
    /\ UNCHANGED <<layoutVars, paintVars, surfaceVars, textVars, catalogue>>

ClipNext ==
    \/ ResolveClipLogic
    \/ ResolveClipRect

TextureNext ==
    \/ AddTexture
    \/ UpdateTexture

PaintNext ==
    \/ PaintFrame
    \/ PaintWith

FrameNext ==
    \/ DeclareFrame
    \/ SyncRemovals
    \/ CalculateAll
    \/ CalculateChild
    \/ CalculateReturn
    \/ ResolvePositions

Next ==
    \/ SetUnscaledViewport
    \/ SetScaleFactor
    \/ FrameNext

\* Frames that add, keep, move and drop widgets.
SpecReconcile == InitOf("reconcile") /\ [][FrameNext]_vars

\* One frame of widgets that enable or escape clipping.
SpecClip == InitOf("clip") /\ [][FrameNext]_vars

\* One frame of normal-flow and absolute-flow widgets in a configured viewport.
SpecFlow == InitOf("flow") /\ [][Next]_vars

\* Frames of widgets that lay out their children in one frame and not in
\* the next, and frames declared again unchanged.
SpecPasses == InitOf("pass") /\ [][FrameNext]_vars

\* One frame of overlapping widgets that open layers and register interest.
SpecLayers == InitOf("layer") /\ [][FrameNext]_vars

\* One frame of paint calls with clips, drawn by the renderer.
SpecPaint == InitOf("paint") /\ [][PaintNext]_vars

\* Frames that reference, modify and drop managed textures.
SpecTextures == InitOf("textures") /\ [][PaintNext]_vars

\* Frames of an application whose surface changes size, format and
\* sample count.
SpecSurface == InitOf("surface") /\ [][SurfaceInfo]_vars

\* An application that registers textures of its own and replaces their
\* views.
SpecUserTextures == InitOf("user") /\ [][TextureNext]_vars

\* Clip logic and clip rectangle states resolved for rectangles of every
\* mutual position.
SpecClipLogic == InitOf("cliplogic") /\ [][ClipNext]_vars

\* Frames of widgets with one interest in a frame and another in the
\* next, laid out in a frame and not in the next.
SpecInterests == InitOf("interest") /\ [][FrameNext]_vars

\* A text box that is declared, laid out and sent events over some frames.
SpecTextBox == InitOf("textbox") /\ [][TextBoxNext]_vars

\* A text box that is declared, laid out and sent the events of a pointer
\* that presses, moves and releases inside and outside it.
SpecTextDrag == InitOf("drag") /\ [][TextBoxNext]_vars

\* Frames that reference, modify and drop managed textures, with and
\* without paint calls, on a surface with and without an area.
SpecEarlyReturn == InitOf("early") /\ [][PaintNext]_vars

\* One frame of widgets that fill their constraints, in a window.
SpecFill == InitOf("fill") /\ [][Next]_vars

-----------------------------------------------------------------------------
(* Properties *)

Range(q) == {q[k] : k \in 1..Len(q)}
AllHandles == {<<s, g>> : s \in Slots, g \in 1..MaxFrames}
ActiveIds == {stack[k].id : k \in 1..Len(stack)}
Live == DomLive(dom)
LaidOut == {h \in Live : Has(nodes, h)}
WidgetOf(h) == DomWidget(dom, h)
PassDone == phase = "idle" /\ frame >= 1
\* The viewport in scaled units, written out.
Viewport ==
    [pos |-> <<unscaled_viewport.pos[1] \div scale_factor,
               unscaled_viewport.pos[2] \div scale_factor>>,
     size |-> <<unscaled_viewport.size[1] \div scale_factor,
                unscaled_viewport.size[2] \div scale_factor>>]

\* C1: every entry of a clip stack, and every open clip stack, belongs to
\* a widget whose calculate() has not returned yet; in particular none is
\* left once calculate() for the root has returned and calculate_all ends.
C1_ClipStacksBalanced ==
    /\ \A k \in 1..Len(current_clip_stack) : current_clip_stack[k] \in ActiveIds
    /\ \A s \in Slots :
          clip_stack[s].occ =>
             \A k \in 1..Len(clip_stack[s].val) : clip_stack[s].val[k] \in ActiveIds
    /\ (phase \in {"resolve", "idle"} => current_clip_stack = <<>>)

\* C1 witness: a pass has ended in which a widget opened a new clip stack
\* below a widget that had enabled clipping, and both were laid out.
C1_Witness ==
    /\ PassDone
    /\ \E h \in LaidOut \ {Root} :
          /\ WidgetOf(h).clip = "new_stack"
          /\ DomParent(dom, h) \in LaidOut \ {Root}
          /\ WidgetOf(DomParent(dom, h)).clip = "enable"
          /\ WidgetOf(DomParent(dom, h)).clipAt = "pre"

\* C2: sync_removals drops the layout entry of every removed handle and
\* leaves every other entry as it was; when the frame has completed, no
\* node that the frame dropped from the Dom has a Dom node, a layout entry
\* or an interest record.
C2_RemovedSubtreeAbsent ==
    [][/\ phase = "sync" =>
            \A h \in AllHandles :
               IF h \in Range(removed) THEN Get(nodes', h) = <<>>
               ELSE Get(nodes', h) = Get(nodes, h)
       /\ phase' = "idle" =>
            \A h \in DomLive(prev'.dom) \cup Range(removed') :
               h \notin DomLive(dom') =>
                  /\ h \in Range(removed')
                  /\ Get(nodes', h) = <<>>
                  /\ \A k \in 1..Len(interests'.layers) :
                        h \notin Range(interests'.layers[k].members)]_vars

\* C2 witness: a frame has completed that dropped a subtree of two nodes,
\* both laid out in the frame before, and kept another laid-out node.
C2_Witness ==
    /\ PassDone
    /\ \E h \in Range(removed) : \E c \in Range(removed) :
          /\ Has(prev.nodes, h) /\ Has(prev.nodes, c)
          /\ ArenaGet(prev.dom, c).parent = h
    /\ \E k \in LaidOut \ {Root} : Has(prev.nodes, k)

\* Handles that were minted and are no longer live in the Dom.
StaleHandles ==
    {h \in AllHandles : Gen(h) <= dom[Slot(h)].gen /\ ~ArenaContains(dom, h)}

\* C3: once the removals are synced, a handle that is no longer live has no
\* layout entry, whether or not its slot holds the entry of a newer
\* handle, and set_pos with it changes nothing.
C3_StaleHandleNeverAliases ==
    phase # "sync" =>
       \A h \in StaleHandles :
          /\ Get(nodes, h) = <<>>
          /\ set_pos(LayoutState, h, <<1, 1>>) = LayoutState

\* C3 witness: the slot of a stale handle holds the layout entry of the
\* live node that reused the slot.
C3_Witness ==
    /\ PassDone
    /\ \E h \in StaleHandles : \E h2 \in LaidOut :
          Slot(h2) = Slot(h) /\ h2 # h /\ nodes[Slot(h)].occ

\* C4: a call site declared under the same parent in two consecutive
\* frames has the same handle in both, and the layout entry of each frame
\* is stored under that handle.
C4_IdentityStable ==
    (PassDone /\ frame >= 2) =>
       \A h \in DomLive(prev.dom) \ {Root} : \A h2 \in Live :
          (/\ ArenaGet(prev.dom, h).site = ArenaGet(dom, h2).site
           /\ ArenaGet(prev.dom, h).parent = ArenaGet(dom, h2).parent)
          => (h = h2 /\ Has(prev.nodes, h) /\ Has(nodes, h2))

\* C4 witness: a second frame has completed that declared a call site
\* again under the same parent, while dropping another.
C4_Witness ==
    /\ PassDone /\ frame >= 2
    /\ removed # <<>>
    /\ \E h \in DomLive(prev.dom) \ {Root} :
          /\ h \in Live
          /\ ArenaGet(prev.dom, h).site = ArenaGet(dom, h).site
          /\ ArenaGet(prev.dom, h).parent = ArenaGet(dom, h).parent
          /\ ArenaGet(dom, h).parent # Root

NodeOf(h) == ArenaGet(nodes, h)
OpensClip(h) == WidgetOf(h).clip \in {"enable", "new_stack"}
Escapes(h) == WidgetOf(h).clip = "new_stack"
Ancestors(h) == DomAncestors(dom, h)
\* The nodes from a (excluded) down to d (included).
Below(a, d) == ({d} \cup Ancestors(d)) \ ({a} \cup Ancestors(a))

LocalPos(h) ==
    LET p == DomParent(dom, h)
        w == WidgetOf(p)
        kids == DomChildren(dom, p)
        RECURSIVE MaxSize(_)
        MaxSize(q) == IF q = <<>> THEN VZero
                      ELSE VMax(NodeOf(Head(q)).rect.size, MaxSize(Tail(q)))
    IN  CASE w.type = "root" -> VZero
          [] w.type = "absolute" -> VNeg(VMul(MaxSize(kids), w.pivot))
          [] OTHER -> w.childPos

AnchorPoint(flow) ==
    <<Viewport.size[1] * flow.anchor[1] + flow.offset.px[1]
         + flow.offset.pct[1] * Viewport.size[1],
      Viewport.size[2] * flow.anchor[2] + flow.offset.px[2]
         + flow.offset.pct[2] * Viewport.size[2]>>

\* C7: after the pass, a node of absolute flow is at viewport size times
\* anchor plus offset, whatever its ancestors' positions and whatever
\* position its parent set for it.
C7_AbsoluteFlowPosition ==
    PassDone =>
       \A h \in LaidOut :
          WidgetOf(h).flow.abs => NodeOf(h).rect.pos = AnchorPoint(WidgetOf(h).flow)

\* C7 witness: an absolute-flow node in a scaled viewport, whose parent is
\* away from the origin and set a position for it.
C7_Witness ==
    /\ PassDone
    /\ scale_factor = 2
    /\ \E h \in LaidOut \ {Root} :
          /\ WidgetOf(h).flow.abs
          /\ WidgetOf(h).flow.offset # Dim2Zero
          /\ DomParent(dom, h) # Root
          /\ NodeOf(DomParent(dom, h)).rect.pos # VZero
          /\ LocalPos(h) # VZero

BottomRightFlow(h) ==
    /\ WidgetOf(h).flow.abs
    /\ WidgetOf(h).flow.anchor = BOTTOM_RIGHT
    /\ WidgetOf(h).flow.offset = Dim2Zero

\* C8 as claimed: a node of flow Absolute{BOTTOM_RIGHT, zero offset} is at
\* viewport size minus its own size.
C8_BottomRightMinusSize ==
    PassDone =>
       \A h \in LaidOut :
          BottomRightFlow(h) =>
             NodeOf(h).rect.pos = VSub(Viewport.size, NodeOf(h).rect.size)

\* C8 amended: a node of flow Absolute{BOTTOM_RIGHT, zero offset} is at
\* the viewport's size (its top-left corner on the viewport's bottom-right
\* corner), whatever its ancestors' positions.
C8_BottomRightAtViewportSize ==
    PassDone =>
       \A h \in LaidOut :
          BottomRightFlow(h) => NodeOf(h).rect.pos = Viewport.size

\* C8 witness: such a node, of a size other than zero, in a scaled
\* viewport, under a parent away from the origin.
C8_Witness ==
    /\ PassDone
    /\ scale_factor = 2
    /\ \E h \in LaidOut \ {Root} :
          /\ BottomRightFlow(h)
          /\ NodeOf(h).rect.size # VZero
          /\ DomParent(dom, h) # Root
          /\ NodeOf(DomParent(dom, h)).rect.pos # VZero

\* The children's sizes of h, maximised on each axis.
ChildrenMax(h) ==
    LET RECURSIVE MaxSize(_)
        MaxSize(q) == IF q = <<>> THEN VZero
                      ELSE VMax(NodeOf(Head(q)).rect.size, MaxSize(Tail(q)))
    IN  MaxSize(DomChildren(dom, h))

\* Where the children of the Absolute widget h are claimed to end.
PivotPoint(h) ==
    VSub(AnchorPoint(WidgetOf(h).flow), VMul(ChildrenMax(h), WidgetOf(h).pivot))

\* C9 as claimed: every child of an Absolute widget ends at
\* viewport size * anchor + offset - S * pivot.
C9_AbsoluteChildrenAll ==
    PassDone =>
       \A h \in LaidOut :
          WidgetOf(h).type = "absolute" =>
             \A k \in 1..Len(DomChildren(dom, h)) :
                NodeOf(DomChildren(dom, h)[k]).rect.pos = PivotPoint(h)

\* C9 amended: every child of normal flow of an Absolute widget ends at
\* viewport size * anchor + offset - S * pivot; the bottom-right corner of
\* the only such child of Absolute(BOTTOM_RIGHT, BOTTOM_RIGHT, zero) is the
\* viewport's bottom-right corner.
C9_AbsoluteChildren ==
    PassDone =>
       \A h \in LaidOut :
          WidgetOf(h).type = "absolute" =>
             \A k \in 1..Len(DomChildren(dom, h)) :
                LET c == DomChildren(dom, h)[k]
                IN  ~WidgetOf(c).flow.abs =>
                       /\ NodeOf(c).rect.pos = PivotPoint(h)
                       /\ (/\ BottomRightFlow(h) /\ WidgetOf(h).pivot = BOTTOM_RIGHT
                           /\ Len(DomChildren(dom, h)) = 1)
                          => RectMax(NodeOf(c).rect) = Viewport.size

\* C9 witness: an Absolute widget with a pivot, nested under a node away
\* from the origin, whose child of normal flow has a size other than zero.
C9_Witness ==
    /\ PassDone
    /\ unscaled_viewport # RectOne
    /\ \E h \in LaidOut \ {Root} :
          /\ WidgetOf(h).type = "absolute"
          /\ WidgetOf(h).pivot # TOP_LEFT
          /\ DomParent(dom, h) # Root
          /\ NodeOf(DomParent(dom, h)).rect.pos # VZero
          /\ Len(DomChildren(dom, h)) = 1
          /\ NodeOf(DomChildren(dom, h)[1]).rect.size # VZero
          /\ ~WidgetOf(DomChildren(dom, h)[1]).flow.abs

\* C10: a node whose rectangle has a zero-area intersection with the clip
\* of the node that clips it takes that clip; its clip has zero area only
\* if the clip of the node that clips it has.
C10_ZeroIntersectionFallsBack ==
    PassDone =>
       \A h \in LaidOut :
          LET p == NodeOf(h).clipped_by
          IN  (p # NoId /\ Has(nodes, p)) =>
                 /\ ZeroArea(Intersection(NodeOf(p).clip, NodeOf(h).rect))
                       => NodeOf(h).clip = NodeOf(p).clip
                 /\ ~ZeroArea(NodeOf(p).clip) => ~ZeroArea(NodeOf(h).clip)

\* C10 witness: a node of positive size that lies fully outside the
\* positive-area clip of the node that clips it.
C10_Witness ==
    /\ PassDone
    /\ \E h \in LaidOut :
          LET p == NodeOf(h).clipped_by
          IN  /\ p # NoId /\ Has(nodes, p)
              /\ ~ZeroArea(NodeOf(h).rect)
              /\ ~ZeroArea(NodeOf(p).clip)
              /\ ZeroArea(Intersection(NodeOf(p).clip, NodeOf(h).rect))

\* The window of 800x600 at scale factor 1, written out.
Window800x600 ==
    /\ unscaled_viewport = [pos |-> <<0, 0>>, size |-> <<800, 600>>]
    /\ scale_factor = 1
OnlyChildFills ==
    /\ Len(DomChildren(dom, Root)) = 1
    /\ WidgetOf(DomChildren(dom, Root)[1]).type = "fill"

\* C11: in a viewport of 800x600 at scale factor 1, after one calculate_all
\* over a root whose only child sizes itself to the constraints it receives,
\* the root and the child both have the rectangle pos (0,0), size (800,600),
\* and the child's clip is the full viewport.
C11_FillsViewport ==
    (PassDone /\ Window800x600 /\ OnlyChildFills) =>
       LET c == DomChildren(dom, Root)[1]
           full == [pos |-> <<0, 0>>, size |-> <<800, 600>>]
       IN  /\ Has(nodes, Root) /\ Has(nodes, c)
           /\ NodeOf(Root).rect = full
           /\ NodeOf(c).rect = full
           /\ NodeOf(c).clip = full

\* C11 witness: the pass has ended in that window, over a root whose only
\* child fills its constraints and has children of its own.
C11_Witness ==
    /\ PassDone /\ Window800x600 /\ OnlyChildFills
    /\ Has(nodes, DomChildren(dom, Root)[1])
    /\ DomChildren(dom, DomChildren(dom, Root)[1]) # <<>>

\* The live nodes calculate() was entered for in this pass.
Visited == {h \in Live : h \in Range(calls)}

\* C12 as claimed: after calculate_all, a live node that was not passed to
\* calculate() in this pass has no layout entry, whether or not it was laid
\* out in an earlier pass, and is not registered for events.
C12_UnvisitedHasNoEntry ==
    PassDone =>
       \A h \in Live \ Visited :
          /\ Get(nodes, h) = <<>>
          /\ \A k \in 1..Len(interests.layers) :
                h \notin Range(interests.layers[k].members)

\* C12, the part that holds: a live node that was never passed to
\* calculate() since it was declared has no layout entry.
C12_NeverVisitedHasNoEntry ==
    (PassDone /\ frame = 1) => \A h \in Live \ Visited : Get(nodes, h) = <<>>

\* C12 witness: the pass has ended without visiting a live node that an
\* earlier pass laid out.
C12_Witness ==
    /\ PassDone /\ frame >= 2
    /\ \E h \in Live \ Visited : Has(prev.nodes, h)

\* The handles whose calculate() has returned in this pass.
Returned == {h \in Visited : h \notin ActiveIds}
\* The layers that are open: the base layer and those pushed and not popped.
OpenLayerRoots == [k \in 1..Len(interests.open) |-> interests.layers[interests.open[k]].root]
\* The active calculate() calls of widgets that called new_layer(), outermost first.
ActiveLayerRoots ==
    LET RECURSIVE Pick(_)
        Pick(q) == IF q = <<>> THEN <<>>
                   ELSE IF WidgetOf(Head(q).id).layer THEN <<Head(q).id>> \o Pick(Tail(q))
                   ELSE Pick(Tail(q))
    IN  Pick(stack)

\* C13: once calculate() has returned for a node, its new_layer flag is
\* true exactly when its widget called new_layer() during its layout in
\* this pass; the open layers are the base layer and the layers of the
\* widgets whose calculate() has not returned, so each layer is popped
\* before its widget's calculate() returns, and after calculate_all the
\* layer stack is as deep as right after it was cleared.
C13_LayerFlagAndBalance ==
    phase \in {"layout", "resolve", "idle"} =>
       /\ \A h \in Returned : NodeOf(h).new_layer = WidgetOf(h).layer
       /\ OpenLayerRoots = <<NoId>> \o ActiveLayerRoots
       /\ (phase \in {"resolve", "idle"} =>
              Len(interests.open) = Len(InterestsClear(interests).open))

\* C13 witness: a pass has ended in which a widget opened a layer inside
\* the layer of another, next to a widget that opened none.
C13_Witness ==
    /\ PassDone
    /\ \E h \in LaidOut \ {Root} :
          /\ WidgetOf(h).layer /\ NodeOf(h).new_layer
          /\ DomParent(dom, h) # Root /\ WidgetOf(DomParent(dom, h)).layer
    /\ \E h \in LaidOut \ {Root} : ~WidgetOf(h).layer /\ ~NodeOf(h).new_layer

\* The points a pointer event may carry.
Points == {<<x, y>> : x \in 0..3, y \in 0..3}
\* The nearest widget, from h upwards, that called new_layer(); NoId if none.
RECURSIVE LayerRootOf(_)
LayerRootOf(h) ==
    IF h = Root \/ h = NoId THEN NoId
    ELSE IF WidgetOf(h).layer THEN h
    ELSE LayerRootOf(DomParent(dom, h))
\* When the layer of h was opened: the place of its root among the
\* calculate() calls of this pass, 0 for the base layer.
OpenedAt(h) ==
    IF LayerRootOf(h) = NoId THEN 0
    ELSE CHOOSE k \in 1..Len(calls) : calls[k] = LayerRootOf(h)
\* The laid-out nodes interested in events, whose rectangle and clip hold the point.
InterestedAt(point) ==
    {h \in LaidOut : /\ WidgetOf(h).interest # "none"
                     /\ RectContains(NodeOf(h).rect, point)
                     /\ RectContains(NodeOf(h).clip, point)}

\* C14: for two interested nodes that both hold a point, one in a layer
\* opened after the layer of the other, the hit test of that point
\* resolves to a node of a layer opened no earlier than the later one;
\* it never resolves to the node of the earlier layer.
C14_LayerPriority ==
    PassDone =>
       \A point \in Points : \A a \in InterestedAt(point) : \A b \in InterestedAt(point) :
          OpenedAt(b) > OpenedAt(a) =>
             LET r == HitTest(interests, nodes, dom, point)
             IN  /\ r \in InterestedAt(point)
                 /\ r # a
                 /\ OpenedAt(r) >= OpenedAt(b)
                 /\ (InterestedAt(point) = {a, b} => r = b)

\* C14 witness: two interested nodes overlap at a point, each in a layer
\* of its own, and the hit test gives the one whose layer was opened later;
\* and two overlap alone at a point where the node of the earlier layer
\* was declared last.
C14_Witness ==
    /\ PassDone
    /\ \E point \in Points : \E a \in InterestedAt(point) : \E b \in InterestedAt(point) :
          /\ OpenedAt(b) > OpenedAt(a) /\ OpenedAt(a) > 0
          /\ HitTest(interests, nodes, dom, point) = b
    /\ \E point \in Points : \E a \in InterestedAt(point) : \E b \in InterestedAt(point) :
          /\ OpenedAt(b) > OpenedAt(a)
          /\ ArenaGet(dom, a).site > ArenaGet(dom, b).site
          /\ InterestedAt(point) = {a, b}

\* The sequence holds no value twice.
NoRepeats(q) == \A i \in 1..Len(q) : \A j \in 1..Len(q) : i # j => q[i] # q[j]

\* C15: in a pass calculate() is entered at most once for a widget, no two
\* active calculate() calls are for the same handle, and the slot that
\* push_new_clip_stack inserts at was never taken: the debug assertion
\* 'clip_stack id clashed' does not fire.
C15_NoClashNoOverlap ==
    /\ NoRepeats(calls)
    /\ NoRepeats([k \in 1..Len(stack) |-> stack[k].id])
    /\ ~clashed

\* C15 witness: a pass has ended in which a widget below the root enabled
\* clipping with no clip stack open, a widget under it opened a new clip
\* stack, and calculate() opened one for a widget that made no clip call.
C15_Witness ==
    /\ PassDone
    /\ \E g \in LaidOut \ {Root} : \E h \in LaidOut \ {Root} :
          /\ DomParent(dom, g) = Root /\ WidgetOf(g).clip = "enable"
          /\ WidgetOf(g).clipAt = "pre"
          /\ DomParent(dom, h) = g /\ WidgetOf(h).clip = "new_stack"
          /\ clip_stack[Slot(g)].occ /\ clip_stack[Slot(h)].occ
    /\ \E f \in LaidOut \ {Root} :
          WidgetOf(f).clip = "none" /\ clip_stack[Slot(f)].occ

\* Two layout entries agree on rect, clip, clipped_by and new_layer.
SameLayout(a, b) ==
    /\ a.rect = b.rect /\ a.clip = b.clip
    /\ a.clipped_by = b.clipped_by /\ a.new_layer = b.new_layer
\* The pass that has ended ran over the Dom of the pass before it.
SecondPassOverSameDom == PassDone /\ frame >= 2 /\ prev.dom = dom

\* C20 as claimed: a second calculate_all over an unchanged Dom, viewport
\* and scale factor leaves every node that has a layout entry with the
\* rect, clip, clipped_by and new_layer the pass before gave it.
C20_PassIdempotent ==
    SecondPassOverSameDom =>
       \A h \in Live :
          Has(nodes, h) => (Has(prev.nodes, h) /\ SameLayout(Get(prev.nodes, h), Get(nodes, h)))

\* C20, the part that holds: the nodes that calculate() was entered for.
C20_VisitedIdempotent ==
    SecondPassOverSameDom =>
       \A h \in Visited :
          Has(nodes, h) /\ Has(prev.nodes, h) /\ SameLayout(Get(prev.nodes, h), Get(nodes, h))

\* C20 witness: a second pass over the same Dom has ended, and a live node
\* that was not visited, under a parent away from the origin, keeps the
\* entry of an earlier pass.
C20_Witness ==
    /\ SecondPassOverSameDom
    /\ \E h \in Live \ Visited :
          /\ Has(nodes, h) /\ Has(prev.nodes, h)
          /\ Has(nodes, DomParent(dom, h))
          /\ NodeOf(DomParent(dom, h)).rect.pos # VZero

\* C19 as claimed: the view a surface_info call with sample_count > 1
\* returns was created with the width, height, format and sample count of
\* that call.
C19_ViewMatchesCall ==
    (surface.calls >= 1 /\ surface.call.sample_count > 1) => surface.view = surface.call

\* C19, the part that holds: the view returned was created by the device,
\* in this call or an earlier one, and a call with sample_count = 1
\* returns the surface's own view and leaves no cached view.
C19_ViewWasCreated ==
    surface.calls >= 1 =>
       IF surface.call.sample_count > 1
       THEN surface.view \in Range(surface.created) /\ multisampling.ms_view = surface.view
       ELSE surface.view = SurfaceView /\ multisampling.ms_view = NoView

\* C19 witness: a call with sample_count > 1 returned the view an earlier
\* call created for a surface of another size.
C19_Witness ==
    /\ surface.calls >= 2 /\ surface.call.sample_count > 1
    /\ surface.view # surface.call
    /\ surface.view.width # surface.call.width
    /\ surface.view \in Range(surface.created)

\* The textures frame f referenced, and the changes of texture t in the
\* edits the renderer consumed in frame f.
ReferencedIn(f) == IF f = 0 THEN {} ELSE texture_log[f].textures
EventsOf(f, t) == {c \in {"Added", "Removed", "Modified"} : <<t, c>> \in texture_log[f].edits}

Painted == paint.frame >= 1 /\ ~paint.pending
SurfaceRect == [pos |-> <<0, 0>>, size |-> paint.surface_size]
\* The draws of Yakui commands that carry a clip.
ClippedDraws ==
    {k \in 1..Len(render_pass) :
        render_pass[k].op = "draw_indexed" /\ render_pass[k].clip # NoClip}
\* The scissor has a width and a height and ends within the surface.
ScissorValid(sc) ==
    /\ sc.size[1] > 0 /\ sc.size[2] > 0
    /\ sc.pos[1] + sc.size[1] <= paint.surface_size[1]
    /\ sc.pos[2] + sc.size[2] <= paint.surface_size[2]

\* C17 as claimed: a Yakui command whose clip has an intersection of zero
\* width or height with the surface is not drawn, and every Yakui command
\* drawn with a clip gets a scissor of positive width and height that
\* ends within the surface.
C17_DegenerateClipsDropped ==
    Painted =>
       \A k \in ClippedDraws :
          /\ ~ZeroArea(Intersection(render_pass[k].clip, SurfaceRect))
          /\ ScissorValid(render_pass[k].scissor)

\* C17, the part that holds: the scissor of every Yakui command drawn
\* with a clip is valid, and no command is drawn whose clip is empty or
\* starts at or beyond the surface's far edge.
C17_ScissorWithinSurface ==
    Painted =>
       \A k \in ClippedDraws :
          /\ ScissorValid(render_pass[k].scissor)
          /\ ~ZeroArea(render_pass[k].clip)
          /\ render_pass[k].clip.pos[1] < paint.surface_size[1]
          /\ render_pass[k].clip.pos[2] < paint.surface_size[2]

\* C17 witness: a Yakui command was drawn whose clip lies fully outside
\* the surface, next to one whose clip was cut at the surface's edge.
C17_Witness ==
    /\ Painted
    /\ \E k \in ClippedDraws :
          ZeroArea(Intersection(render_pass[k].clip, SurfaceRect))
    /\ \E k \in ClippedDraws :
          /\ ~ZeroArea(Intersection(render_pass[k].clip, SurfaceRect))
          /\ render_pass[k].scissor # render_pass[k].clip

\* The clip lies on the surface and has an area, or there is none.
PlainClip(clip) ==
    \/ clip = NoClip
    \/ /\ clip.pos[1] >= 0 /\ clip.pos[2] >= 0
       /\ clip.size[1] > 0 /\ clip.size[2] > 0
       /\ clip.pos[1] + clip.size[1] <= paint.surface_size[1]
       /\ clip.pos[2] + clip.size[2] <= paint.surface_size[2]

\* C18: the draws recorded into the render pass follow the order in which
\* the PaintDom's layers hold the calls, none twice; each is the draw of
\* its source call, with that call's pipeline and clip; a Yakui draw has
\* the index range of its mesh and, for a clip on the surface, that clip
\* as its scissor, a custom draw that clip as its viewport; and no call
\* without a clip or with a clip on the surface is left out.
C18_DrawOrder ==
    Painted =>
       /\ \A k \in 1..(Len(render_pass) - 1) :
             render_pass[k].mesh < render_pass[k + 1].mesh
       /\ \A k \in 1..Len(render_pass) :
             LET e == render_pass[k]
                 c == paint.emitted[e.mesh]
                 before == {m \in 1..(e.mesh - 1) : paint.emitted[m].kind = "yakui"}
             IN  /\ e.mesh \in 1..Len(paint.emitted)
                 /\ e.clip = c.clip /\ e.pipeline = c.pipeline
                 /\ e.op = (IF c.kind = "yakui" THEN "draw_indexed" ELSE "paint")
                 /\ c.kind = "yakui" =>
                       /\ e.index_range = <<3 * Cardinality(before), 3 * Cardinality(before) + 3>>
                       /\ e.viewport = SurfaceRect
                       /\ (PlainClip(c.clip) /\ c.clip # NoClip) => e.scissor = c.clip
                       /\ c.clip = NoClip => e.scissor = SurfaceRect
                 /\ c.kind = "custom" =>
                       /\ e.scissor = SurfaceRect
                       /\ (PlainClip(c.clip) /\ c.clip # NoClip) => e.viewport = c.clip
       /\ (~renderer.panicked /\ paint.surface_size # <<0, 0>>) =>
             \A m \in 1..Len(paint.emitted) :
                PlainClip(paint.emitted[m].clip) =>
                   \E k \in 1..Len(render_pass) : render_pass[k].mesh = m

\* C18 witness: two layers of one call each were drawn, a custom call
\* with a clip in the first and a Yakui call with another clip in the
\* second.
C18_Witness ==
    /\ Painted /\ Len(render_pass) = 2
    /\ render_pass[1].op = "paint" /\ render_pass[2].op = "draw_indexed"
    /\ render_pass[1].clip # NoClip /\ render_pass[2].clip # NoClip
    /\ render_pass[1].clip # render_pass[2].clip
    /\ renderer.commands[1].mesh = 1
    /\ Len(paint.emitted) = 2

\* The ids add_texture has returned so far.
ReturnedIds ==
    {texture_calls[k].id : k \in {j \in 1..Len(texture_calls) :
                                    texture_calls[j].op = "add_texture"}}
\* The step is a call of update_texture.
UpdateTextureCalled ==
    /\ Len(texture_calls') = Len(texture_calls) + 1
    /\ Last(texture_calls').op = "update_texture"

\* C21: a call of update_texture with an id that no earlier add_texture of
\* this renderer returned (a Managed id, bits without a generation, an
\* unknown slot or generation) panics and changes no texture; with an id
\* add_texture returned it does not panic, gives that texture the new
\* view, and leaves its filters and address mode and every other texture
\* as they were.
C21_UpdateTexture ==
    [][UpdateTextureCalled =>
          LET c == Last(texture_calls')
          IN  IF c.id \in ReturnedIds
              THEN /\ ~renderer'.panicked
                   /\ \A s \in Slots :
                         LET old == renderer.textures[s]
                             new == renderer'.textures[s]
                         IN  IF c.id = TextureIdUser(old.gen * (U32Max + 1) + s)
                             THEN /\ new.occ /\ new.gen = old.gen
                                  /\ new.val.view = c.view
                                  /\ new.val.min_filter = old.val.min_filter
                                  /\ new.val.mag_filter = old.val.mag_filter
                                  /\ new.val.mipmap_filter = old.val.mipmap_filter
                                  /\ new.val.address_mode = old.val.address_mode
                             ELSE new = old
              ELSE /\ renderer'.panicked
                   /\ renderer'.textures = renderer.textures]_vars

\* C21 witness: with two textures registered, the view of the second was
\* replaced by another one, and a later call with the first texture's
\* slot under another generation panicked.
C21_Witness ==
    /\ Len(texture_calls) = 4 /\ renderer.panicked
    /\ texture_calls[1].op = "add_texture" /\ texture_calls[2].op = "add_texture"
    /\ texture_calls[3].op = "update_texture"
    /\ texture_calls[3].id = texture_calls[2].id
    /\ texture_calls[3].view # texture_calls[2].view
    /\ texture_calls[1].view = texture_calls[3].view
    /\ texture_calls[4] = [op |-> "update_texture", id |-> TextureIdUser(2 * (U32Max + 1)),
                           view |-> 1]
    /\ renderer.textures[1].val.view = texture_calls[3].view

\* The text of the box, when it has an editor.
TextOf(w) == w.cosmic_editor[1].text

EnterDelivered ==
    /\ text_call'.op = "event"
    /\ text_call'.event.kind = "KeyChanged"
    /\ text_call'.event.key \in {"Enter", "NumpadEnter"}
    /\ textbox.cosmic_editor # None

\* C23: Enter or NumpadEnter going down in a text box with an editor
\* marks the box activated and clears the input selection, the text and
\* the changed mark staying as they were, when inline_edit is set and not
\* both multiline is set and shift is held; otherwise a line break is
\* inserted at the cursor and the text is marked changed, the activation
\* and the selection staying as they were. The key going up changes
\* nothing.
C23_EnterKey ==
    [][EnterDelivered =>
          LET e == text_call'.event
              old == textbox.cosmic_editor[1]
              new == textbox'.cosmic_editor[1]
          IN  IF ~e.down
              THEN textbox' = textbox /\ selection' = selection
              ELSE IF textbox.props.inline_edit
                      /\ ~(textbox.props.multiline /\ e.shift)
              THEN /\ textbox'.activated /\ ~selection'
                   /\ new = old
                   /\ textbox'.text_changed = textbox.text_changed
              ELSE /\ Len(new.text) = Len(old.text) + 1
                   /\ new.text[old.cursor + 1] = "\n"
                   /\ \A k \in 1..Len(old.text) :
                         new.text[IF k <= old.cursor THEN k ELSE k + 1] = old.text[k]
                   /\ textbox'.text_changed
                   /\ textbox'.activated = textbox.activated
                   /\ selection' = selection]_vars

\* C23 witness: shift and Enter went down in a selected multiline inline
\* box and put a line break before its text, without activating it or
\* clearing the selection.
C23_Witness ==
    /\ text_call = [op |-> "event", event |-> KeyChanged("Enter", TRUE, TRUE),
                    response |-> "Sink"]
    /\ textbox.props.inline_edit /\ textbox.props.multiline
    /\ TextOf(textbox) = <<"\n", "b">>
    /\ selection /\ ~textbox.activated /\ textbox.text_changed

\* The laid-out nodes that opened a new clip stack in their layout.
Escaped == {h \in LaidOut : Escapes(h)}
\* The descendants of h that make no clip call, with none but such nodes
\* between them and h.
PlainBelow(h) ==
    {d \in LaidOut : /\ h \in Ancestors(d)
                     /\ \A b \in Below(h, d) : WidgetOf(b).clip = "none"}

\* C24 as claimed: a node that opened a new clip stack has the viewport
\* as its resolved clip and no clipper, and the descendants that make no
\* clip call of their own are clipped by it.
C24_EscapeToViewport ==
    PassDone =>
       \A h \in Escaped :
          /\ NodeOf(h).clip = Viewport
          /\ NodeOf(h).clipped_by = NoId
          /\ \A d \in PlainBelow(h) : NodeOf(d).clipped_by = h

\* C24, the part that holds: a node that opened a new clip stack has no
\* clipper and its own rectangle as its clip, whatever its ancestors
\* clip, and the descendants that make no clip call are clipped by it.
C24_EscapeUnconstrained ==
    PassDone =>
       \A h \in Escaped :
          /\ NodeOf(h).clip = NodeOf(h).rect
          /\ NodeOf(h).clipped_by = NoId
          /\ \A d \in PlainBelow(h) : NodeOf(d).clipped_by = h

\* C24 witness: under a clipping widget, a widget that opened a new clip
\* stack, with a child that makes no clip call; the clip of the first is
\* not the viewport.
C24_Witness ==
    /\ PassDone
    /\ \E h \in Escaped :
          /\ \E a \in Ancestors(h) : WidgetOf(a).clip = "enable" /\ a \in LaidOut
          /\ PlainBelow(h) # {}
          /\ NodeOf(h).clip # Viewport

\* The rectangle an AbstractClipRect designates in the resolution asked
\* for.
Designated(r) ==
    IF r.kind = "ParentClip" THEN clipping.parent_clip
    ELSE IF r.kind = "LayoutRect" THEN clipping.layout_rect
    ELSE IF r.kind = "Viewport" THEN clipping.viewport
    ELSE r.rect

\* C28: ClipLogic::resolve gives the parent's clip for Pass, the
\* designated rectangle for Override, whatever the other inputs are, and
\* the first designated rectangle constrained by the second for
\* Constrain; Override(Viewport) gives the viewport and
\* Override(ParentClip) what Pass gives.
C28_ClipLogicResolve ==
    (clipping # <<>> /\ clipping.op = "resolve") =>
       LET self == clipping.self
       IN  /\ self.kind = "Pass" => clipping.result = clipping.parent_clip
           /\ self.kind = "Override" => clipping.result = Designated(self.a)
           /\ self.kind = "Constrain" =>
                 clipping.result = RectConstrain(Designated(self.a), Designated(self.b))
           /\ self = Override(ViewportRect) => clipping.result = clipping.viewport
           /\ self = Override(ParentClip) =>
                 clipping.result = resolve(Pass, clipping.parent_clip,
                                           clipping.layout_rect, clipping.viewport)

\* C28 witness: Override(Viewport) was resolved to the viewport under a
\* parent clip and a layout rectangle that both differ from it.
C28_Witness ==
    /\ clipping # <<>> /\ clipping.op = "resolve"
    /\ clipping.self = Override(ViewportRect)
    /\ clipping.parent_clip # clipping.viewport
    /\ clipping.layout_rect # clipping.viewport
    /\ clipping.result = clipping.viewport

\* The step is the return of the innermost calculate().
CalculateReturned ==
    /\ phase = "layout" /\ stack # <<>>
    /\ Len(stack') = Len(stack) - 1

\* C25: when calculate(id) returns, the entry of id has its rectangle at
\* (0,0) and its clip equal to that rectangle, whatever entry an earlier
\* pass left and wherever it stood; the rectangle of a box has the size
\* the box's layout gives, and the size the caller receives is the size
\* of that rectangle.
C25_CalculateStoresEntry ==
    [][CalculateReturned =>
          LET id == Last(stack).id
              n == ArenaGet(nodes', id)
          IN  /\ ArenaContains(nodes', id)
              /\ n.rect.pos = <<0, 0>>
              /\ n.clip = n.rect
              /\ WidgetOf(id).type = "box" => n.rect.size = WidgetOf(id).size
              /\ Len(stack) > 1 =>
                    Last(stack').acc = VMax(stack[Len(stack) - 1].acc, n.rect.size)]_vars

\* C25 witness: in a later pass, calculate() has returned for a node that
\* the pass before left at another position, and its entry is back at
\* (0,0) with the clip equal to the rectangle.
C25_Witness ==
    /\ phase = "layout" /\ frame >= 2
    /\ \E h \in Returned :
          /\ ArenaContains(prev.nodes, h)
          /\ ArenaGet(prev.nodes, h).rect.pos # <<0, 0>>
          /\ NodeOf(h).rect = RectFromPosSize(<<0, 0>>, WidgetOf(h).size)
          /\ NodeOf(h).clip = NodeOf(h).rect
          /\ WidgetOf(h).size # <<0, 0>>

\* The nodes registered in layer k, and in any layer.
MembersOf(k) == Range(interests.layers[k].members)
Registered == UNION {MembersOf(k) : k \in 1..Len(interests.layers)}
\* How often the node is registered.
Registrations(h) ==
    Cardinality({<<k, m>> \in (1..Len(interests.layers)) \X (1..MaxSlots) :
                    /\ m <= Len(interests.layers[k].members)
                    /\ interests.layers[k].members[m] = h})

\* C26: after calculate_all the registered nodes are the nodes passed to
\* calculate() in this pass whose interest is a mouse interest or the
\* capture of keys, each registered once; a node not passed to calculate()
\* in this pass is not registered, whatever the pass before registered,
\* and neither is a node whose interest is the focused keyboard alone.
C26_InterestsRebuilt ==
    PassDone =>
       /\ Registered = {h \in Visited : WidgetOf(h).interest \in {"mouse", "keys"}}
       /\ \A h \in Registered : Registrations(h) = 1

\* C26 witness: the second pass has ended; a node interested in the mouse
\* that the first pass laid out was not passed to calculate() and is not
\* registered, its parent capturing keys is, and a node interested in the
\* focused keyboard alone was in the first pass and was not registered.
C26_Witness ==
    /\ PassDone /\ frame = 2
    /\ \E h \in Live \ Visited :
          /\ WidgetOf(h).interest = "mouse"
          /\ ArenaContains(prev.nodes, h)
          /\ DomWidget(prev.dom, h).interest = "mouse"
          /\ h \notin Registered
          /\ DomParent(dom, h) \in Registered
          /\ WidgetOf(DomParent(dom, h)).interest = "keys"
          /\ DomWidget(prev.dom, DomParent(dom, h)).interest = "focus"

\* The layer a node is registered in.
LayerOf(h) == CHOOSE k \in 1..Len(interests.layers) : h \in MembersOf(k)

\* C27: a registered widget that called new_layer() is a member of the
\* layer it opened; a registered widget that opened none is a member of
\* the layer its nearest ancestor with a layer opened, or of the base
\* layer, also when its calculate() starts after a sibling that opened a
\* layer has returned.
C27_OwnInterestInOwnLayer ==
    PassDone =>
       \A h \in Registered : interests.layers[LayerOf(h)].root = LayerRootOf(h)

\* C27 witness: a widget with a layer and a mouse interest is registered
\* in its layer, and a sibling laid out after it is registered in the
\* base layer.
C27_Witness ==
    /\ PassDone
    /\ \E h \in Registered : \E g \in Registered :
          /\ WidgetOf(h).layer /\ interests.layers[LayerOf(h)].root = h
          /\ DomParent(dom, g) = DomParent(dom, h)
          /\ ~WidgetOf(g).layer
          /\ \E i \in 1..Len(calls) : \E j \in 1..Len(calls) :
                calls[i] = h /\ calls[j] = g /\ i < j
          /\ interests.layers[LayerOf(g)].root = NoId

NoClipping == \A h \in Live : WidgetOf(h).clip = "none"

ButtonDelivered ==
    /\ text_call'.op = "event"
    /\ text_call'.event.kind = "MouseButtonChanged"
\* The step delivered MouseMoved(Some(position)) to the text box.
MoveDelivered ==
    /\ text_call'.op = "event"
    /\ text_call'.event.kind = "MouseMoved"
    /\ text_call'.event.position # None

\* C31: after a button-One release is delivered to a text box its drag
\* state is None, whether the pointer was inside the widget or not.
C31_ReleaseEndsDrag ==
    [][ButtonDelivered /\ ~text_call'.event.down => textbox'.drag = "None"]_vars

\* C31, the part that holds: a release inside the widget leaves the drag
\* state None.
C31_ReleaseInsideEndsDrag ==
    [][ButtonDelivered /\ ~text_call'.event.down /\ text_call'.event.inside
          => textbox'.drag = "None"]_vars

\* C31 witness: the button was released outside a text box whose text was
\* being dragged over, and the drag goes on.
C31_Witness ==
    /\ text_call # <<>> /\ text_call.op = "event"
    /\ text_call.event.kind = "MouseButtonChanged"
    /\ ~text_call.event.down /\ ~text_call.event.inside
    /\ textbox.drag = "Dragging"
    /\ textbox.cosmic_editor # None /\ textbox.cosmic_editor[1].selection # None

\* C32: a step leaves a drag in progress exactly when it is a button-One
\* press inside a text box that has a layout entry, or a drag was in
\* progress and the step is not a release inside. MouseMoved(Some) is
\* answered with Sink exactly when a drag is in progress: in DragStart it
\* only switches to Dragging, the editor staying as it was; in Dragging
\* it drags, anchoring the selection at the cursor if there is none and
\* moving the cursor to the pointer; with no drag it bubbles and changes
\* neither the text box nor the input selection.
C32_MouseMoved ==
    [][/\ textbox'.drag # "None"
            <=> \/ /\ ButtonDelivered /\ text_call'.event.down
                   /\ text_call'.event.inside /\ text_layout
                \/ /\ textbox.drag # "None"
                   /\ ~(/\ ButtonDelivered /\ ~text_call'.event.down
                        /\ text_call'.event.inside)
       /\ MoveDelivered =>
             /\ (text_call'.response = "Sink") = (textbox.drag # "None")
             /\ text_call'.response \in {"Sink", "Bubble"}
             /\ selection' = selection
             /\ textbox.drag = "None" => textbox' = textbox
             /\ textbox.drag = "DragStart" =>
                   textbox' = [textbox EXCEPT !.drag = "Dragging"]
             /\ textbox.drag = "Dragging" =>
                   LET old == textbox.cosmic_editor[1]
                       new == textbox'.cosmic_editor[1]
                       at  == text_call'.event.position[1]
                   IN  /\ textbox' = [textbox EXCEPT !.cosmic_editor = Some(new)]
                       /\ new.text = old.text
                       /\ new.cursor = IF at <= Len(old.text) THEN at ELSE Len(old.text)
                       /\ new.selection = IF old.selection = None
                                          THEN Some(old.cursor) ELSE old.selection]_vars

\* C32 witness: after a press at the start of the text and a first move,
\* a second move has selected the whole text.
C32_Witness ==
    /\ text_call = [op |-> "event", event |-> MouseMoved(Some(2)), response |-> "Sink"]
    /\ textbox.drag = "Dragging"
    /\ textbox.cosmic_editor = Some([text |-> <<"b", "c">>, cursor |-> 2,
                                     selection |-> Some(0)])

\* C33: a button-One event inside the text box, press or release, makes
\* the text box the input selection and is answered with Sink; one
\* outside is answered with Sink and changes neither the input selection
\* nor the text box, its drag state and editor included.
C33_ButtonOne ==
    [][ButtonDelivered =>
          /\ text_call'.response = "Sink"
          /\ IF text_call'.event.inside THEN selection'
             ELSE selection' = selection /\ textbox' = textbox]_vars

\* C33 witness: a release inside the text box ended a drag that had
\* selected text, and the text box is the input selection.
C33_Witness ==
    /\ text_call # <<>> /\ text_call.op = "event"
    /\ text_call.event.kind = "MouseButtonChanged"
    /\ text_call.event.inside /\ ~text_call.event.down
    /\ selection /\ textbox.drag = "None"
    /\ textbox.cosmic_editor # None /\ textbox.cosmic_editor[1].selection # None

\* paint_with has returned, and returned early: no layer of the frame
\* had a call, or the surface had no area.
ReturnedEarly ==
    /\ paint.frame >= 1 /\ ~paint.pending
    /\ \/ \A k \in 1..Len(paint.layers) : paint.layers[k] = <<>>
       \/ paint.surface_size = VZero
    /\ paint.layers # <<>>

\* C34: after every paint_with, one that returned early included, the
\* renderer holds a GPU texture for every texture of the PaintDom's table,
\* with the content the table has for it, and none for a texture that the
\* call's texture edits reported Removed.
C34_TexturesBeforeEarlyReturn ==
    (~paint.pending /\ texture_log # <<>>) =>
       /\ \A t \in DOMAIN paint.textures :
             /\ t \in DOMAIN renderer.managed_textures
             /\ renderer.managed_textures[t] = paint.textures[t]
       /\ \A t \in Textures :
             <<t, "Removed">> \in texture_log[Len(texture_log)].edits
                => t \notin DOMAIN renderer.managed_textures

\* C34 witness: a paint_with that returned early, on a surface without
\* area, consumed the edits that removed one texture and modified
\* another.
C34_Witness ==
    /\ ReturnedEarly /\ paint.surface_size = VZero
    /\ Len(texture_log) = 2
    /\ \E t \in Textures : <<t, "Removed">> \in texture_log[2].edits
    /\ \E t \in Textures : <<t, "Modified">> \in texture_log[2].edits
    /\ render_pass = <<>>

====
